---- MODULE Spec2Model ----
(***************************************************************************)
(* Discussion-analysis pipeline: the SQLite data access layer, the topic   *)
(* analyzer and the pipeline orchestrator, modelled from the Python source.*)
(*                                                                         *)
(* Three specifications share the variables:                               *)
(*   SpecDAO    sequences of SQLiteDAO calls on one connection             *)
(*   SpecTopic  the TopicAnalyzer functions applied to bounded inputs      *)
(*   Spec       runs of Pipeline.process                                   *)
(***************************************************************************)
EXTENDS Integers, Sequences, FiniteSets, TLC

VARIABLES
    db,             \* committed content of the database file
    conn,           \* what the (thread-local) connection sees: db + uncommitted rows
    dao_last,       \* the last DAO call: operation, arguments, pre-state, outcome
    llm_topics,     \* what llm_client.analyze_topics answers
    llm_hierarchy,  \* what llm_client.extract_hierarchies answers
    analysis,       \* outcome of TopicAnalyzer.analyze
    topics,         \* the Topic objects handed to _update_topic_relationships
    hierarchy,      \* the parsed hierarchy map handed to it
    t_pc,           \* which TopicAnalyzer function is applied, or "done"
    wiring,         \* the collaborators Pipeline.__init__ was given
    audio,          \* the input file: its suffix and whether it exists
    run,            \* the locals and the position of one Pipeline.process call
    fs,             \* the storage tree and the debug_output directory
    local,          \* SQLiteConnection._local: each thread's cached connection
    handles,        \* the sqlite3.Connection objects opened so far
    conn_call,      \* the last call on the SQLiteConnection and its result
    unit_last,      \* the last call on a single component and its result
    pa              \* the locals and the position of the process_audio calls, and their disk

dao_vars == <<db, conn, dao_last>>

topic_vars == <<llm_topics, llm_hierarchy, analysis, topics, hierarchy, t_pc>>

pipe_vars == <<wiring, audio, run, fs>>

comp_vars == <<local, handles, conn_call, unit_last, pa>>

vars == <<dao_vars, topic_vars, pipe_vars, comp_vars>>

(***************************************************************************)
(* Bounds                                                                  *)
(***************************************************************************)
MaxSegs == 2        \* longest segment list handed to one call
MaxRows == 2        \* transcription + topic rows before the DAO driver stops inserting
MaxTopics == 2      \* topics in one analysis
MaxChildren == 4    \* children listed in the hierarchy map, over all its entries
MaxEntries == 2     \* entries of the hierarchy map
MaxScored == 3      \* segments of one SentimentAnalyzer.analyze call
MaxTurns == 2       \* speaker turns the diarizer returns
MaxVersions == 3    \* seconds at which a report version is stored
MaxConns == 3       \* connections opened by the threads of one behaviour

(***************************************************************************)
(* Exceptions: a class name and the message as a sequence of fragments     *)
(***************************************************************************)
NoExc == [cls |-> "none", msg |-> <<>>]

Exc(c, m) == [cls |-> c, msg |-> m]

\* sqlite3.IntegrityError, ProgrammingError and OperationalError all derive
\* from sqlite3.Error
SqliteErrors == {"IntegrityError", "ProgrammingError", "OperationalError"}

IsSqliteError(e) == e.cls \in SqliteErrors

Contains(m, frag) == \E i \in 1..Len(m) : m[i] = frag

UniqueMsg == "UNIQUE constraint failed"
ForeignKeyMsg == "FOREIGN KEY constraint failed"
BindingMsg == "You did not supply a value for binding parameter"
EngineMsg == "disk I/O error"

(***************************************************************************)
(* Tables                                                                  *)
(***************************************************************************)
EmptyTables == [recordings |-> <<>>, transcriptions |-> <<>>, topics |-> <<>>,
                sentiment |-> <<>>]

RecordingIds(view) == {view.recordings[i].recording_id : i \in 1..Len(view.recordings)}

\* schema: recordings.recording_id is the primary key
UniqueViolation(view, recording_id) == recording_id \in RecordingIds(view)

\* schema: transcriptions/topics.recording_id reference recordings
\* (the connection sets PRAGMA foreign_keys = ON)
ForeignKeyViolation(view, recording_id) == recording_id \notin RecordingIds(view)

(***************************************************************************)
(* sqlite3.Connection.execute / executemany of the INSERT statements.      *)
(* Each returns [view, exc, lastrowid]; eng = "fail" is the engine refusing*)
(* the statement (sqlite3.OperationalError).                               *)
(***************************************************************************)
Stmt(view, exc, rowid) == [view |-> view, exc |-> exc, lastrowid |-> rowid]

\* positional parameters (recording_id, str(file_path), duration,
\* recording_date.isoformat(), format)
InsertRecording(view, recording_id, rec, eng) ==
    IF eng = "fail"
    THEN Stmt(view, Exc("OperationalError", <<EngineMsg>>), 0)
    ELSE IF UniqueViolation(view, recording_id)
    THEN Stmt(view, Exc("IntegrityError", <<UniqueMsg, "recordings.recording_id">>), 0)
    ELSE Stmt([view EXCEPT !.recordings = Append(@,
                  [recording_id |-> recording_id, file_path |-> rec.file_path,
                   duration |-> rec.duration, recording_date |-> rec.recording_date,
                   format |-> rec.format])], NoExc, Len(view.recordings) + 1)

TranscriptionParams ==
    {"recording_id", "speaker_id", "start_time", "end_time", "text", "confidence"}

\* named parameters: every :name of the statement must be a key of params
InsertTranscription(view, params, eng) ==
    IF ~(TranscriptionParams \subseteq DOMAIN params)
    THEN Stmt(view, Exc("ProgrammingError", <<BindingMsg, ":confidence">>), 0)
    ELSE IF eng = "fail"
    THEN Stmt(view, Exc("OperationalError", <<EngineMsg>>), 0)
    ELSE IF ForeignKeyViolation(view, params["recording_id"])
    THEN Stmt(view, Exc("IntegrityError", <<ForeignKeyMsg>>), 0)
    ELSE Stmt([view EXCEPT !.transcriptions = Append(@,
                  [id |-> Len(view.transcriptions) + 1,
                   recording_id |-> params["recording_id"],
                   speaker_id |-> params["speaker_id"],
                   start_time |-> params["start_time"],
                   end_time |-> params["end_time"],
                   text |-> params["text"],
                   confidence |-> params["confidence"]])],
              NoExc, Len(view.transcriptions) + 1)

RECURSIVE ExecuteManyTranscriptions(_, _, _)
\* executemany: one INSERT per element, stopping at the first that raises;
\* rows inserted before it stay in the open transaction
ExecuteManyTranscriptions(view, params_list, eng) ==
    IF params_list = <<>>
    THEN Stmt(view, NoExc, 0)
    ELSE LET r == InsertTranscription(view, Head(params_list), eng)
         IN  IF r.exc # NoExc
             THEN r
             ELSE ExecuteManyTranscriptions(r.view, Tail(params_list), eng)

TopicParams ==
    {"recording_id", "topic_name", "start_time", "end_time", "importance_score"}

InsertTopic(view, params, eng) ==
    IF ~(TopicParams \subseteq DOMAIN params)
    THEN Stmt(view, Exc("ProgrammingError", <<BindingMsg, ":importance_score">>), 0)
    ELSE IF eng = "fail"
    THEN Stmt(view, Exc("OperationalError", <<EngineMsg>>), 0)
    ELSE IF ForeignKeyViolation(view, params["recording_id"])
    THEN Stmt(view, Exc("IntegrityError", <<ForeignKeyMsg>>), 0)
    ELSE Stmt([view EXCEPT !.topics = Append(@,
                  [topic_id |-> Len(view.topics) + 1,
                   recording_id |-> params["recording_id"],
                   topic_name |-> params["topic_name"],
                   start_time |-> params["start_time"],
                   end_time |-> params["end_time"],
                   importance_score |-> params["importance_score"]])],
              NoExc, Len(view.topics) + 1)

(***************************************************************************)
(* SQLiteConnection: the context managers and execute                      *)
(***************************************************************************)
\* the except clauses of transaction(): what leaves the with block
TransactionExit(e) ==
    IF e.cls = "IntegrityError" THEN e
    ELSE IF IsSqliteError(e) THEN Exc("QueryError", <<"Transaction failed">> \o e.msg)
    ELSE Exc("DAOError", <<"Unexpected transaction error">> \o e.msg)

\* the except clauses of get_connection()
GetConnectionExit(e) ==
    IF IsSqliteError(e) THEN e
    ELSE Exc("DAOError", <<"Unexpected database error">> \o e.msg)

Outcome(d, c, exc, val) == [db |-> d, conn |-> c, exc |-> exc, val |-> val]

\* a transaction whose rollback also drops what was committed before
TransactionDroppingAll(d, body) ==
    IF body.exc = NoExc
    THEN Outcome(body.view, body.view, NoExc, body.lastrowid)
    ELSE Outcome(EmptyTables, EmptyTables,
                 GetConnectionExit(TransactionExit(body.exc)), 0)

\* with self.conn.transaction() as conn: <body>   -- body is the statement result
\* success: commit (everything pending on the connection becomes durable);
\* failure: rollback (everything pending on the connection is discarded)
transaction(d, body) ==
    IF body.exc = NoExc
    THEN Outcome(body.view, body.view, NoExc, body.lastrowid)
    ELSE Outcome(d, d, GetConnectionExit(TransactionExit(body.exc)), 0)

\* SQLiteConnection.execute: no commit on success, rollback on failure
execute(d, body) ==
    IF body.exc = NoExc
    THEN Outcome(d, body.view, NoExc, body.lastrowid)
    ELSE LET e == GetConnectionExit(body.exc)
         IN  Outcome(d, d,
                     IF IsSqliteError(e)
                     THEN Exc("QueryError", <<"Query execution failed">> \o e.msg)
                     ELSE e,
                     0)

(***************************************************************************)
(* SQLiteDAO                                                               *)
(***************************************************************************)
None == "None"

\* an absent time filter (times are not negative)
NoTime == -1

\* the except clauses of store_recording
\* a store_recording that does not tell the constraint failures apart
StoreRecordingExitPlain(recording_id, e) ==
    IF e = NoExc THEN NoExc
    ELSE Exc("DAOError", <<"Failed to store recording">> \o e.msg)

StoreRecordingExit(recording_id, e) ==
    IF e = NoExc THEN NoExc
    ELSE IF e.cls = "IntegrityError"
    THEN IF Contains(e.msg, UniqueMsg)
         THEN Exc("DataIntegrityError",
                  <<"Recording", recording_id, "already exists">> \o e.msg)
         ELSE Exc("DataIntegrityError", <<"Data integrity error">> \o e.msg)
    ELSE IF e.cls = "QueryError"
    THEN Exc("DAOError", <<"Query error while storing recording">> \o e.msg)
    ELSE Exc("DAOError", <<"Failed to store recording">> \o e.msg)

store_recording(d, c, recording_id, rec, eng) ==
    LET r == transaction(d, InsertRecording(c, recording_id, rec, eng))
    IN  [r EXCEPT !.exc = StoreRecordingExit(recording_id, r.exc), !.val = None]

\* {**segment, 'recording_id': recording_id}
WithRecordingId(data, recording_id) == ("recording_id" :> recording_id) @@ data

StoreTranscriptionExit(e) ==
    IF e = NoExc THEN NoExc
    ELSE IF e.cls = "IntegrityError"
    THEN Exc("DataIntegrityError", <<"Invalid transcription data">> \o e.msg)
    ELSE Exc("DAOError", <<"Failed to store transcription">> \o e.msg)

store_transcription(d, c, recording_id, segments, eng) ==
    LET params_list == [i \in 1..Len(segments) |->
                            WithRecordingId(segments[i], recording_id)]
        r == transaction(d, ExecuteManyTranscriptions(c, params_list, eng))
    IN  [r EXCEPT !.exc = StoreTranscriptionExit(r.exc), !.val = None]

StoreTopicExit(e) ==
    IF e = NoExc THEN NoExc
    ELSE IF e.cls = "IntegrityError"
    THEN Exc("DataIntegrityError", <<"Invalid topic data">> \o e.msg)
    ELSE Exc("DAOError", <<"Failed to store topic">> \o e.msg)

\* self.conn.execute(INSERT ...): the row is written on the connection and
\* the method returns cursor.lastrowid; nothing commits
store_topic(d, c, recording_id, topic_data, eng) ==
    LET r == execute(d, InsertTopic(c, WithRecordingId(topic_data, recording_id), eng))
    IN  [r EXCEPT !.exc = StoreTopicExit(r.exc)]

\* a SELECT through SQLiteConnection.execute; rows is what the query yields
Select(d, c, rows, eng) ==
    execute(d, IF eng = "fail"
               THEN Stmt(c, Exc("OperationalError", <<EngineMsg>>), 0)
               ELSE Stmt(c, NoExc, rows))

\* query_one: the first row, or None; an Optional is a sequence of length <= 1
get_recording_metadata(d, c, recording_id, eng) ==
    LET hits == SelectSeq(c.recordings, LAMBDA row : row.recording_id = recording_id)
        r == Select(d, c, IF hits = <<>> THEN <<>> ELSE <<hits[1]>>, eng)
    IN  IF r.exc # NoExc
        THEN [r EXCEPT !.exc = Exc("DAOError",
                                   <<"Failed to get recording metadata">> \o r.exc.msg)]
        ELSE IF r.val = <<>>
        THEN [r EXCEPT !.exc = Exc("RecordNotFoundError",
                                   <<"Recording", recording_id, "not found">>)]
        ELSE r

RECURSIVE InsertByStart(_, _)
InsertByStart(row, sorted) ==
    IF sorted = <<>> THEN <<row>>
    ELSE IF row.start_time < Head(sorted).start_time
    THEN <<row>> \o sorted
    ELSE <<Head(sorted)>> \o InsertByStart(row, Tail(sorted))

RECURSIVE OrderByStartTime(_)
\* ORDER BY start_time; rows with equal start_time keep their rowid order
OrderByStartTime(rows) ==
    IF rows = <<>> THEN <<>>
    ELSE InsertByStart(rows[Len(rows)], OrderByStartTime(SubSeq(rows, 1, Len(rows) - 1)))

get_transcription(d, c, recording_id, start_time, end_time, eng) ==
    LET hits == SelectSeq(c.transcriptions, LAMBDA row :
                    /\ row.recording_id = recording_id
                    /\ (start_time # NoTime => row.end_time >= start_time)
                    /\ (end_time # NoTime => row.start_time <= end_time))
        r == Select(d, c, OrderByStartTime(hits), eng)
    IN  IF r.exc # NoExc
        THEN [r EXCEPT !.exc = Exc("DAOError",
                                   <<"Failed to get transcription">> \o r.exc.msg)]
        ELSE r

get_topics(d, c, recording_id, eng) ==
    LET hits == SelectSeq(c.topics, LAMBDA row : row.recording_id = recording_id)
        r == Select(d, c, OrderByStartTime(hits), eng)
    IN  IF r.exc # NoExc
        THEN [r EXCEPT !.exc = Exc("DAOError", <<"Failed to get topics">> \o r.exc.msg)]
        ELSE r

\* a get_discussion_summary that reports every failure as a DAOError
GetDiscussionSummaryExitMasking(e) ==
    IF e = NoExc THEN NoExc
    ELSE Exc("DAOError", <<"Failed to get discussion summary">> \o e.msg)

\* except RecordNotFoundError: raise / except Exception as e: raise DAOError
GetDiscussionSummaryExit(e) ==
    IF e = NoExc THEN NoExc
    ELSE IF e.cls = "RecordNotFoundError" THEN e
    ELSE Exc("DAOError", <<"Failed to get discussion summary">> \o e.msg)

\* the dict display evaluates the metadata lookup first, then the list
\* queries; eng is the engine at the metadata query, eng_rest at the others.
\* The arguments, agreements and gaps tables are never written here.
get_discussion_summary(d, c, recording_id, eng, eng_rest) ==
    LET m == get_recording_metadata(d, c, recording_id, eng)
        t == get_topics(m.db, m.conn, recording_id, eng_rest)
    IN  IF m.exc # NoExc
        THEN Outcome(m.db, m.conn, GetDiscussionSummaryExit(m.exc), None)
        ELSE IF t.exc # NoExc
        THEN Outcome(t.db, t.conn, GetDiscussionSummaryExit(t.exc), None)
        ELSE Outcome(t.db, t.conn, NoExc,
                     [metadata |-> m.val[1], topics |-> t.val, arguments |-> <<>>,
                      agreements |-> <<>>, gaps |-> <<>>])

(***************************************************************************)
(* Topic model and TopicAnalyzer                                           *)
(***************************************************************************)
\* dataclass Topic: the fields without a default must be passed
TopicRequired == {"name", "start_time", "end_time", "importance_score"}

\* Topic(**kwargs): an Optional field is a sequence of length <= 1, and
\* subtopics refers to Topic objects by their position in the topics list
TopicInit(kwargs) ==
    IF ~(TopicRequired \subseteq DOMAIN kwargs)
    THEN [exc |-> Exc("TypeError", <<"Topic.__init__() missing required argument",
                                     "importance_score">>),
          obj |-> <<>>]
    ELSE [exc |-> NoExc,
          obj |-> <<[name |-> kwargs["name"], start_time |-> kwargs["start_time"],
                     end_time |-> kwargs["end_time"],
                     importance_score |-> kwargs["importance_score"],
                     topic_id |-> <<>>, subtopics |-> <<>>, parent_topic |-> <<>>]>>]

\* float() of a JSON number keeps its value
Float(x) == x

\* the keyword arguments _parse_topics passes for one entry of data['topics']
ParseTopicsKwargs(t) ==
    [name |-> t["name"], start_time |-> Float(t["start_time"]),
     end_time |-> Float(t["end_time"])]

RECURSIVE ParseTopicEntries(_)
\* the list comprehension of _parse_topics: KeyError for an entry lacking a
\* key, else whatever the Topic constructor raises, else the Topic objects
ParseTopicEntries(entries) ==
    IF entries = <<>> THEN [exc |-> NoExc, topics |-> <<>>]
    ELSE LET t == Head(entries)
         IN  IF ~({"name", "start_time", "end_time"} \subseteq DOMAIN t)
             THEN [exc |-> Exc("KeyError", <<"name">>), topics |-> <<>>]
             ELSE LET made == TopicInit(ParseTopicsKwargs(t))
                  IN  IF made.exc # NoExc
                      THEN [exc |-> made.exc, topics |-> <<>>]
                      ELSE LET rest == ParseTopicEntries(Tail(entries))
                           IN  IF rest.exc # NoExc THEN rest
                               ELSE [exc |-> NoExc, topics |-> made.obj \o rest.topics]

\* an LLM response: json = FALSE when the content is not JSON, else data is
\* the decoded object
_parse_topics(llm_response) ==
    LET r == IF ~llm_response.json
             THEN [exc |-> Exc("JSONDecodeError", <<"Expecting value">>), topics |-> <<>>]
             ELSE IF "topics" \notin DOMAIN llm_response.data
             THEN [exc |-> Exc("KeyError", <<"topics">>), topics |-> <<>>]
             ELSE ParseTopicEntries(llm_response.data["topics"])
    IN  IF r.exc.cls \in {"KeyError", "JSONDecodeError", "AttributeError"}
        THEN [r EXCEPT !.exc = Exc("ValidationError", <<"Failed to parse topics">> \o r.exc.msg)]
        ELSE r

_parse_hierarchy(llm_response) ==
    IF ~llm_response.json
    THEN [exc |-> Exc("ValidationError", <<"Failed to parse hierarchy", "Expecting value">>),
          hierarchy |-> <<>>]
    ELSE IF "hierarchy" \notin DOMAIN llm_response.data
    THEN [exc |-> Exc("ValidationError", <<"Failed to parse hierarchy", "hierarchy">>),
          hierarchy |-> <<>>]
    ELSE [exc |-> NoExc, hierarchy |-> llm_response.data["hierarchy"]]

\* topic_map = {t.name: t for t in topics}: the last Topic of a name wins
TopicMapKeys(ts) == {ts[i].name : i \in 1..Len(ts)}

TopicMap(ts, name) == CHOOSE i \in 1..Len(ts) :
    /\ ts[i].name = name
    /\ \A j \in 1..Len(ts) : ts[j].name = name => j <= i

\* only the first listed child gets its parent_topic set
SetParentsFirstOnly(ts, parent, children) ==
    IF children = <<>> \/ Head(children) \notin TopicMapKeys(ts) THEN ts
    ELSE [ts EXCEPT ![TopicMap(ts, Head(children))].parent_topic = <<parent>>]

RECURSIVE SetParents(_, _, _)
\* for child in children: if child in topic_map: topic_map[child].parent_topic = parent
SetParents(ts, parent, children) ==
    IF children = <<>> THEN ts
    ELSE LET child == Head(children)
             ts1 == IF child \in TopicMapKeys(ts)
                    THEN [ts EXCEPT ![TopicMap(ts, child)].parent_topic = <<parent>>]
                    ELSE ts
         IN  SetParents(ts1, parent, Tail(children))

\* one iteration of the loop over hierarchy.items()
UpdateEntry(ts, entry) ==
    LET parent == entry.parent
        children == entry.children
    IN  IF parent \notin TopicMapKeys(ts) THEN ts
        ELSE LET known == SelectSeq(children, LAMBDA child : child \in TopicMapKeys(ts))
                 subs == [k \in 1..Len(known) |-> TopicMap(ts, known[k])]
                 ts1 == [ts EXCEPT ![TopicMap(ts, parent)].subtopics = <<subs>>]
             IN  SetParents(ts1, parent, children)

RECURSIVE _update_topic_relationships(_, _)
\* the hierarchy map is the sequence of its items in iteration order
_update_topic_relationships(ts, h) ==
    IF h = <<>> THEN ts
    ELSE _update_topic_relationships(UpdateEntry(ts, Head(h)), Tail(h))

TopicAnalysisError(e) == Exc("TopicAnalysisError", <<"Analysis failed">> \o e.msg)

\* a call issued to the LLM client: the method and the topic names passed
LlmCall(fn, names) == [fn |-> fn, names |-> names]

Analysis(exc, ts, h, calls) == [exc |-> exc, topics |-> ts, hierarchy |-> h, calls |-> calls]

\* an analyze that issues analyze_topics a second time when the first call
\* raises
AnalyzeRetrying(answer_t, answer_h) ==
    IF answer_t.raise
    THEN Analysis(TopicAnalysisError(Exc("LLMAPIError", <<"Topic analysis failed">>)),
                  <<>>, <<>>, <<LlmCall("analyze_topics", <<>>),
                                LlmCall("analyze_topics", <<>>)>>)
    ELSE LET parsed == _parse_topics(answer_t)
         IN  IF parsed.exc # NoExc
             THEN Analysis(TopicAnalysisError(parsed.exc), <<>>, <<>>, <<LlmCall("analyze_topics", <<>>)>>)
             ELSE LET topic_names == [i \in 1..Len(parsed.topics) |-> parsed.topics[i].name]
                      calls == <<LlmCall("analyze_topics", <<>>),
                                 LlmCall("extract_hierarchies", topic_names)>>
                  IN  IF answer_h.raise
                      THEN Analysis(TopicAnalysisError(
                                        Exc("LLMAPIError", <<"Hierarchy extraction failed">>)),
                                    <<>>, <<>>, calls)
                      ELSE LET h == _parse_hierarchy(answer_h)
                           IN  IF h.exc # NoExc
                               THEN Analysis(TopicAnalysisError(h.exc), <<>>, <<>>, calls)
                               ELSE Analysis(NoExc,
                                             _update_topic_relationships(parsed.topics,
                                                                         h.hierarchy),
                                             h.hierarchy, calls)

\* TopicAnalyzer.analyze: answer_t / answer_h are what the two LLM calls do:
\* raise = TRUE for LLMAPIError, else a response
analyze(answer_t, answer_h) ==
    IF answer_t.raise
    THEN Analysis(TopicAnalysisError(Exc("LLMAPIError", <<"Topic analysis failed">>)),
                  <<>>, <<>>, <<LlmCall("analyze_topics", <<>>)>>)
    ELSE LET parsed == _parse_topics(answer_t)
         IN  IF parsed.exc # NoExc
             THEN Analysis(TopicAnalysisError(parsed.exc), <<>>, <<>>, <<LlmCall("analyze_topics", <<>>)>>)
             ELSE LET topic_names == [i \in 1..Len(parsed.topics) |-> parsed.topics[i].name]
                      calls == <<LlmCall("analyze_topics", <<>>),
                                 LlmCall("extract_hierarchies", topic_names)>>
                  IN  IF answer_h.raise
                      THEN Analysis(TopicAnalysisError(
                                        Exc("LLMAPIError", <<"Hierarchy extraction failed">>)),
                                    <<>>, <<>>, calls)
                      ELSE LET h == _parse_hierarchy(answer_h)
                           IN  IF h.exc # NoExc
                               THEN Analysis(TopicAnalysisError(h.exc), <<>>, <<>>, calls)
                               ELSE Analysis(NoExc,
                                             _update_topic_relationships(parsed.topics,
                                                                         h.hierarchy),
                                             h.hierarchy, calls)

(***************************************************************************)
(* SpecDAO: a caller issuing DAO calls one after the other                 *)
(***************************************************************************)
RecIds == {"r1", "r2"}

\* the arguments of the two store_recording calls of test_dao_data_integrity
RecInputs ==
    { [file_path |-> "test.wav", duration |-> 60, recording_date |-> 1, format |-> "wav"],
      [file_path |-> "test2.wav", duration |-> 30, recording_date |-> 2, format |-> "wav"] }

Speakers == <<"speaker1", "speaker2">>

\* the i-th utterance of a discussion, as the pipeline and
\* test_sqlite_dao_comprehensive pass it (no confidence key) ...
SegmentBare(i) ==
    [speaker_id |-> Speakers[((i - 1) % 2) + 1], start_time |-> 10 * (i - 1),
     end_time |-> 10 * i, text |-> i]

\* ... and as DataAccessInterface.store_transcription documents it
SegmentFull(i) == ("confidence" :> 1) @@ SegmentBare(i)

\* n utterances in ascending or descending time order, the first full of
\* them carrying a confidence
SegmentList(n, order, full) ==
    [k \in 1..n |->
        LET i == IF order = "asc" THEN k ELSE n + 1 - k
        IN  IF k <= full THEN SegmentFull(i) ELSE SegmentBare(i)]

SegmentLists ==
    { SegmentList(n, order, full) :
        n \in 0..MaxSegs, order \in {"asc", "desc"}, full \in 0..MaxSegs }

IsBare(segments) ==
    \A k \in 1..Len(segments) :
        DOMAIN segments[k] = {"speaker_id", "start_time", "end_time", "text"}

TopicDataBare == [topic_name |-> "Test Topic", start_time |-> 0, end_time |-> 30]

TopicInputs == { TopicDataBare, ("importance_score" :> 8) @@ TopicDataBare }

Engine == {"ok", "fail"}

Call(op, recording_id, arg, eng, r) ==
    [op |-> op, recording_id |-> recording_id, arg |-> arg, eng |-> eng,
     pre |-> conn, pre_db |-> db, exc |-> r.exc, val |-> r.val]

NoCall == [op |-> "none", recording_id |-> None, arg |-> None, eng |-> "ok",
           pre |-> EmptyTables, pre_db |-> EmptyTables, exc |-> NoExc, val |-> None]

\* the driver stops adding rows once the derived tables hold MaxRows rows
Apply(op, recording_id, arg, eng, r) ==
    /\ Len(r.conn.transcriptions) + Len(r.conn.topics) <= MaxRows
    /\ db' = r.db
    /\ conn' = r.conn
    /\ dao_last' = Call(op, recording_id, arg, eng, r)
    /\ UNCHANGED <<comp_vars, topic_vars, pipe_vars>>

StoreRecording ==
    \E id \in RecIds, rec \in RecInputs, eng \in Engine :
        Apply("store_recording", id, rec, eng, store_recording(db, conn, id, rec, eng))

StoreTranscription ==
    \E id \in RecIds, segments \in SegmentLists, eng \in Engine :
        Apply("store_transcription", id, segments, eng,
              store_transcription(db, conn, id, segments, eng))

StoreTopic ==
    \E id \in RecIds, topic_data \in TopicInputs, eng \in Engine :
        Apply("store_topic", id, topic_data, eng,
              store_topic(db, conn, id, topic_data, eng))

GetRecordingMetadata ==
    \E id \in RecIds, eng \in Engine :
        Apply("get_recording_metadata", id, None, eng,
              get_recording_metadata(db, conn, id, eng))

GetTranscription ==
    \E id \in RecIds, eng \in Engine :
        Apply("get_transcription", id, None, eng,
              get_transcription(db, conn, id, NoTime, NoTime, eng))

GetTopics ==
    \E id \in RecIds, eng \in Engine :
        Apply("get_topics", id, None, eng, get_topics(db, conn, id, eng))

(***************************************************************************)
(* SpecTopic: the TopicAnalyzer functions applied to bounded inputs        *)
(***************************************************************************)
TopicNames == {"A", "B", "C"}

SeqsUpTo(S, n) == UNION { [1..k -> S] : k \in 0..n }

IsInjective(f) == \A i, j \in DOMAIN f : f[i] = f[j] => i = j

RECURSIVE SumTo(_, _)
\* lens[1] + ... + lens[i]
SumTo(lens, i) == IF i = 0 THEN 0 ELSE lens[i] + SumTo(lens, i - 1)

\* the hierarchy map whose i-th key is ps[i] and whose i-th value is the next
\* lens[i] names of flat
HierarchyOf(ps, lens, flat) ==
    [i \in 1..Len(ps) |->
        [parent |-> ps[i],
         children |-> SubSeq(flat, SumTo(lens, i - 1) + 1, SumTo(lens, i))]]

\* the keys of a hierarchy map of up to n entries, in iteration order
ParentLists(n) == { q \in SeqsUpTo(TopicNames, n) : IsInjective(q) }

\* how many children each of k entries lists
ChildCounts(k) == { l \in [1..k -> 0..MaxChildren] : SumTo(l, k) <= MaxChildren }

\* hierarchy maps of up to n entries with distinct parents, in iteration
\* order, listing up to MaxChildren children in all
HierarchiesUpTo(n) ==
    UNION { UNION { { HierarchyOf(ps, lens, flat) :
                        flat \in [1..SumTo(lens, Len(ps)) -> TopicNames] } :
                    lens \in ChildCounts(Len(ps)) } :
            ps \in ParentLists(n) }

\* an entry of the topics response as the TopicsResponse schema shapes it
TopicEntry(name) == [name |-> name, start_time |-> 0, end_time |-> 45]

\* the same entry with the name key missing
TopicEntryNoName == [start_time |-> 0, end_time |-> 45]

LlmRaise == [raise |-> TRUE, json |-> FALSE, data |-> <<>>]

LlmNotJson == [raise |-> FALSE, json |-> FALSE, data |-> <<>>]

LlmJson(data) == [raise |-> FALSE, json |-> TRUE, data |-> data]

TopicAnswers ==
    {LlmRaise, LlmNotJson, LlmJson([other |-> <<>>])}
    \cup { LlmJson([topics |-> es]) :
             es \in SeqsUpTo({TopicEntry(n) : n \in {"A", "B"}} \cup {TopicEntryNoName},
                             MaxTopics) }

HierarchyAnswers ==
    {LlmRaise, LlmNotJson, LlmJson([other |-> <<>>])}
    \cup { LlmJson([hierarchy |-> h]) : h \in HierarchiesUpTo(1) }

WellFormedTopics(a) ==
    /\ ~a.raise /\ a.json /\ "topics" \in DOMAIN a.data
    /\ \A i \in 1..Len(a.data["topics"]) :
           {"name", "start_time", "end_time"} \subseteq DOMAIN a.data["topics"][i]

WellFormedHierarchy(a) == ~a.raise /\ a.json /\ "hierarchy" \in DOMAIN a.data

\* a Topic object as a caller constructs it (all required fields given)
NewTopic(name) ==
    TopicInit([name |-> name, start_time |-> 0, end_time |-> 45,
               importance_score |-> 1]).obj[1]

TopicLists == SeqsUpTo({NewTopic(n) : n \in TopicNames}, MaxTopics)

NoAnalysis == Analysis(NoExc, <<>>, <<>>, <<>>)

(***************************************************************************)
(* CombinedProcessor (entry checks), LocalFileStorage, SentimentAnalyzer,  *)
(* HTMLReportGenerator                                                     *)
(***************************************************************************)
\* file suffixes without the dot, as audio_path.suffix[1:] yields them
Exts == {"wav", "WAV", "mp3", "m4a", "flac", "txt"}

\* str.lower() on the suffixes above
Lower(x) == IF x = "WAV" THEN "wav" ELSE x

SUPPORTED_FORMATS == {"wav", "mp3", "m4a", "flac"}

_validate_file(file) == file.exists /\ Lower(file.ext) \in SUPPORTED_FORMATS

ALLOWED_AUDIO_FORMATS == {"wav", "mp3", "m4a"}

_validate_audio_format(format) ==
    IF Lower(format) \notin ALLOWED_AUDIO_FORMATS
    THEN Exc("InvalidFormatError", <<"Unsupported audio format", format>>)
    ELSE NoExc

\* the values uuid.uuid4() hands out
FileIds == {"f1", "f2"}

\* a uuid source that hands out the same value every time
GenerateFileIdFixed(used) == {"f1"}

\* _generate_file_id: the values uuid.uuid4() may return once the values in
\* used have been returned
_generate_file_id(used) == FileIds \ used

\* a store_audio that copies the file before it looks at the format
StoreAudioCopyFirst(audio_files, file, format, new_id, copy_ok) ==
    LET invalid == _validate_audio_format(format)
        copied == IF file.exists /\ copy_ok
                  THEN audio_files \cup {[file_id |-> new_id, format |-> Lower(format)]}
                  ELSE audio_files
    IN  IF invalid # NoExc
        THEN [exc |-> invalid, file_id |-> "", audio_files |-> copied, source |-> file]
        ELSE [exc |-> NoExc, file_id |-> new_id, audio_files |-> copied, source |-> file]

\* LocalFileStorage.store_audio; new_id is the uuid drawn, copy_ok whether
\* shutil.copy2 succeeds; a file under audio/ is its id and its suffix
store_audio(audio_files, file, format, new_id, copy_ok) ==
    LET invalid == _validate_audio_format(format)
    IN  IF invalid # NoExc
        THEN [exc |-> invalid, file_id |-> "", audio_files |-> audio_files,
              source |-> file]
        ELSE IF ~file.exists
        THEN [exc |-> Exc("FileNotFoundError", <<"Audio file not found">>),
              file_id |-> "", audio_files |-> audio_files, source |-> file]
        ELSE IF ~copy_ok
        THEN [exc |-> Exc("StorageOperationError", <<"Failed to store audio file">>),
              file_id |-> "", audio_files |-> audio_files, source |-> file]
        ELSE [exc |-> NoExc, file_id |-> new_id,
              audio_files |-> audio_files \cup
                                {[file_id |-> new_id, format |-> Lower(format)]},
              source |-> file]

\* LocalFileStorage.get_audio: the first audio/{file_id}.{format} that
\* exists, format running over ALLOWED_AUDIO_FORMATS in the set's order
get_audio(audio_files, file_id) ==
    LET found == {f \in audio_files :
                     f.file_id = file_id /\ f.format \in ALLOWED_AUDIO_FORMATS}
    IN  IF found = {}
        THEN {[exc |-> Exc("FileNotFoundError", <<"Audio file not found", file_id>>),
               path |-> <<>>]}
        ELSE {[exc |-> NoExc, path |-> <<f>>] : f \in found}

ALLOWED_REPORT_FORMATS == {"html", "pdf", "txt"}

\* the version directories of one report, latest first:
\* sorted(report_base.iterdir(), reverse=True)
RECURSIVE SortedReverse(_)
SortedReverse(dirs) ==
    IF dirs = {} THEN <<>>
    ELSE LET top == CHOOSE d \in dirs : \A e \in dirs : e.timestamp <= d.timestamp
         IN  <<top>> \o SortedReverse(dirs \ {top})

\* the same listing, oldest first
RECURSIVE SortedForward(_)
SortedForward(dirs) ==
    IF dirs = {} THEN <<>>
    ELSE LET low == CHOOSE d \in dirs : \A e \in dirs : d.timestamp <= e.timestamp
         IN  <<low>> \o SortedForward(dirs \ {low})

VersionsOf(versions, report_id) == {d \in versions : d.report_id = report_id}

\* LocalFileStorage.store_report at time now; a version directory is its
\* report, its timestamp name and the report files in it
store_report(versions, report_id, format, now, write_ok) ==
    IF format \notin ALLOWED_REPORT_FORMATS
    THEN [exc |-> Exc("InvalidFormatError", <<"Unsupported report format", format>>),
          path |-> <<>>, versions |-> versions]
    ELSE LET old == {d \in versions : d.report_id = report_id /\ d.timestamp = now}
             files == UNION {d.files : d \in old}
             dir(fl) == [report_id |-> report_id, timestamp |-> now, files |-> fl]
         IN  IF ~write_ok
             THEN [exc |-> Exc("StorageOperationError", <<"Failed to store report">>),
                   path |-> <<>>,
                   versions |-> (versions \ old) \cup {dir(files)}]
             ELSE [exc |-> NoExc, path |-> <<[report_id |-> report_id,
                                              timestamp |-> now, format |-> format]>>,
                   versions |-> (versions \ old) \cup {dir(files \cup {format})}]

\* LocalFileStorage.get_report: <<path>> for a report file of the latest
\* version, <<>> for None
get_report(versions, report_id) ==
    LET listed == SortedReverse(VersionsOf(versions, report_id))
    IN  IF listed = <<>> THEN {<<>>}
        ELSE IF listed[1].files = {} THEN {<<>>}
        ELSE {<<[report_id |-> report_id, timestamp |-> listed[1].timestamp,
                 format |-> f]>> : f \in listed[1].files}

\* the outcome of removing listed[keep_versions:] in order, where the
\* rm_fail-th rmtree raises (0: none does)
RemoveOld(versions, listed, keep_versions, rm_fail) ==
    LET first == keep_versions + 1
        failed == rm_fail > 0 /\ first + rm_fail - 1 <= Len(listed)
        last == IF failed THEN first + rm_fail - 2 ELSE Len(listed)
    IN  [exc |-> IF failed
                 THEN Exc("StorageOperationError", <<"Failed to cleanup old reports">>)
                 ELSE NoExc,
         versions |-> versions \ {listed[i] : i \in first..last}]

\* a cleanup that lists the versions oldest first
CleanupOldestKept(versions, report_id, keep_versions, rm_fail) ==
    RemoveOld(versions, SortedForward(VersionsOf(versions, report_id)),
              keep_versions, rm_fail)

\* LocalFileStorage.cleanup_old_reports: rmtree on versions[keep_versions:]
cleanup_old_reports(versions, report_id, keep_versions, rm_fail) ==
    RemoveOld(versions, SortedReverse(VersionsOf(versions, report_id)),
              keep_versions, rm_fail)

\* a TranscriptionSegment as process_audio returns it
TranscriptionSegment(i) ==
    [text |-> i, start |-> 10 * (i - 1), end |-> 10 * i,
     speaker |-> Speakers[((i - 1) % 2) + 1], confidence |-> 1]

Transcripts == { [i \in 1..n |-> TranscriptionSegment(i)] : n \in 0..MaxSegs }

\* sentiment scores the LLM answers with; a float is written as repr shows it
Scores == {"0.2", "0.4", "0.6"}

\* the same scores counted in tenths
Tenths(score) ==
    CASE score = "0.2" -> 2
      [] score = "0.4" -> 4
      [] score = "0.6" -> 6

\* what llm_client.analyze_sentiment does for one segment
SentimentAnswers == {[raise |-> TRUE, score |-> "0.0"]} \cup
                    {[raise |-> FALSE, score |-> sc] : sc \in Scores}

\* float.__add__ on the doubles met when up to 4 of the scores are added
\* left to right, each double written as repr shows it

FloatAddTable ==
    {<<"0.0", "0.2", "0.2">>, <<"0.0", "0.4", "0.4">>,
     <<"0.0", "0.6", "0.6">>, <<"0.2", "0.2", "0.4">>,
     <<"0.2", "0.4", "0.6000000000000001">>, <<"0.2", "0.6", "0.8">>,
     <<"0.4", "0.2", "0.6000000000000001">>, <<"0.4", "0.4", "0.8">>,
     <<"0.4", "0.6", "1.0">>, <<"0.6", "0.2", "0.8">>,
     <<"0.6", "0.4", "1.0">>, <<"0.6", "0.6", "1.2">>,
     <<"0.6000000000000001", "0.2", "0.8">>, <<"0.6000000000000001", "0.4", "1.0">>,
     <<"0.6000000000000001", "0.6", "1.2000000000000002">>, <<"0.8", "0.2", "1.0">>,
     <<"0.8", "0.4", "1.2000000000000002">>, <<"0.8", "0.6", "1.4">>,
     <<"1.0", "0.2", "1.2">>, <<"1.0", "0.4", "1.4">>,
     <<"1.0", "0.6", "1.6">>, <<"1.2", "0.2", "1.4">>,
     <<"1.2", "0.4", "1.6">>, <<"1.2", "0.6", "1.7999999999999998">>,
     <<"1.2000000000000002", "0.2", "1.4000000000000001">>, <<"1.2000000000000002", "0.4", "1.6">>,
     <<"1.2000000000000002", "0.6", "1.8000000000000003">>, <<"1.4", "0.2", "1.5999999999999999">>,
     <<"1.4", "0.4", "1.7999999999999998">>, <<"1.4", "0.6", "2.0">>,
     <<"1.6", "0.2", "1.8">>, <<"1.6", "0.4", "2.0">>,
     <<"1.6", "0.6", "2.2">>, <<"1.7999999999999998", "0.2", "1.9999999999999998">>,
     <<"1.7999999999999998", "0.4", "2.1999999999999997">>, <<"1.7999999999999998", "0.6", "2.4">>}

FloatDivTable ==
    {<<"0.2", 1, "0.2">>, <<"0.4", 1, "0.4">>,
     <<"0.4", 2, "0.2">>, <<"0.6", 1, "0.6">>,
     <<"0.6000000000000001", 2, "0.30000000000000004">>, <<"0.6000000000000001", 3, "0.20000000000000004">>,
     <<"0.8", 2, "0.4">>, <<"0.8", 3, "0.26666666666666666">>,
     <<"0.8", 4, "0.2">>, <<"1.0", 2, "0.5">>,
     <<"1.0", 3, "0.3333333333333333">>, <<"1.0", 4, "0.25">>,
     <<"1.2", 2, "0.6">>, <<"1.2", 3, "0.39999999999999997">>,
     <<"1.2", 4, "0.3">>, <<"1.2000000000000002", 3, "0.4000000000000001">>,
     <<"1.2000000000000002", 4, "0.30000000000000004">>, <<"1.4", 3, "0.4666666666666666">>,
     <<"1.4", 4, "0.35">>, <<"1.4000000000000001", 4, "0.35000000000000003">>,
     <<"1.5999999999999999", 4, "0.39999999999999997">>, <<"1.6", 3, "0.5333333333333333">>,
     <<"1.6", 4, "0.4">>, <<"1.7999999999999998", 3, "0.6">>,
     <<"1.7999999999999998", 4, "0.44999999999999996">>, <<"1.8", 4, "0.45">>,
     <<"1.8000000000000003", 4, "0.45000000000000007">>, <<"1.9999999999999998", 4, "0.49999999999999994">>,
     <<"2.0", 4, "0.5">>, <<"2.1999999999999997", 4, "0.5499999999999999">>,
     <<"2.2", 4, "0.55">>, <<"2.4", 4, "0.6">>}

\* sum() of a list of floats where it adds with compensation (CPython 3.12 on)

CompensatedSumTable ==
    {<<<<"0.2">>, "0.2">>, <<<<"0.2", "0.2">>, "0.4">>,
     <<<<"0.2", "0.2", "0.2">>, "0.6000000000000001">>, <<<<"0.2", "0.2", "0.2", "0.2">>, "0.8">>,
     <<<<"0.2", "0.2", "0.2", "0.4">>, "1.0">>, <<<<"0.2", "0.2", "0.2", "0.6">>, "1.2">>,
     <<<<"0.2", "0.2", "0.4">>, "0.8">>, <<<<"0.2", "0.2", "0.4", "0.2">>, "1.0">>,
     <<<<"0.2", "0.2", "0.4", "0.4">>, "1.2000000000000002">>, <<<<"0.2", "0.2", "0.4", "0.6">>, "1.4">>,
     <<<<"0.2", "0.2", "0.6">>, "1.0">>, <<<<"0.2", "0.2", "0.6", "0.2">>, "1.2">>,
     <<<<"0.2", "0.2", "0.6", "0.4">>, "1.4">>, <<<<"0.2", "0.2", "0.6", "0.6">>, "1.6">>,
     <<<<"0.2", "0.4">>, "0.6000000000000001">>, <<<<"0.2", "0.4", "0.2">>, "0.8">>,
     <<<<"0.2", "0.4", "0.2", "0.2">>, "1.0">>, <<<<"0.2", "0.4", "0.2", "0.4">>, "1.2000000000000002">>,
     <<<<"0.2", "0.4", "0.2", "0.6">>, "1.4">>, <<<<"0.2", "0.4", "0.4">>, "1.0">>,
     <<<<"0.2", "0.4", "0.4", "0.2">>, "1.2000000000000002">>, <<<<"0.2", "0.4", "0.4", "0.4">>, "1.4000000000000001">>,
     <<<<"0.2", "0.4", "0.4", "0.6">>, "1.6">>, <<<<"0.2", "0.4", "0.6">>, "1.2">>,
     <<<<"0.2", "0.4", "0.6", "0.2">>, "1.4">>, <<<<"0.2", "0.4", "0.6", "0.4">>, "1.6">>,
     <<<<"0.2", "0.4", "0.6", "0.6">>, "1.8">>, <<<<"0.2", "0.6">>, "0.8">>,
     <<<<"0.2", "0.6", "0.2">>, "1.0">>, <<<<"0.2", "0.6", "0.2", "0.2">>, "1.2">>,
     <<<<"0.2", "0.6", "0.2", "0.4">>, "1.4">>, <<<<"0.2", "0.6", "0.2", "0.6">>, "1.6">>,
     <<<<"0.2", "0.6", "0.4">>, "1.2">>, <<<<"0.2", "0.6", "0.4", "0.2">>, "1.4">>,
     <<<<"0.2", "0.6", "0.4", "0.4">>, "1.6">>, <<<<"0.2", "0.6", "0.4", "0.6">>, "1.8">>,
     <<<<"0.2", "0.6", "0.6">>, "1.4">>, <<<<"0.2", "0.6", "0.6", "0.2">>, "1.6">>,
     <<<<"0.2", "0.6", "0.6", "0.4">>, "1.8">>, <<<<"0.2", "0.6", "0.6", "0.6">>, "2.0">>,
     <<<<"0.4">>, "0.4">>, <<<<"0.4", "0.2">>, "0.6000000000000001">>,
     <<<<"0.4", "0.2", "0.2">>, "0.8">>, <<<<"0.4", "0.2", "0.2", "0.2">>, "1.0">>,
     <<<<"0.4", "0.2", "0.2", "0.4">>, "1.2000000000000002">>, <<<<"0.4", "0.2", "0.2", "0.6">>, "1.4">>,
     <<<<"0.4", "0.2", "0.4">>, "1.0">>, <<<<"0.4", "0.2", "0.4", "0.2">>, "1.2000000000000002">>,
     <<<<"0.4", "0.2", "0.4", "0.4">>, "1.4000000000000001">>, <<<<"0.4", "0.2", "0.4", "0.6">>, "1.6">>,
     <<<<"0.4", "0.2", "0.6">>, "1.2">>, <<<<"0.4", "0.2", "0.6", "0.2">>, "1.4">>,
     <<<<"0.4", "0.2", "0.6", "0.4">>, "1.6">>, <<<<"0.4", "0.2", "0.6", "0.6">>, "1.8">>,
     <<<<"0.4", "0.4">>, "0.8">>, <<<<"0.4", "0.4", "0.2">>, "1.0">>,
     <<<<"0.4", "0.4", "0.2", "0.2">>, "1.2000000000000002">>, <<<<"0.4", "0.4", "0.2", "0.4">>, "1.4000000000000001">>,
     <<<<"0.4", "0.4", "0.2", "0.6">>, "1.6">>, <<<<"0.4", "0.4", "0.4">>, "1.2000000000000002">>,
     <<<<"0.4", "0.4", "0.4", "0.2">>, "1.4000000000000001">>, <<<<"0.4", "0.4", "0.4", "0.4">>, "1.6">>,
     <<<<"0.4", "0.4", "0.4", "0.6">>, "1.8">>, <<<<"0.4", "0.4", "0.6">>, "1.4">>,
     <<<<"0.4", "0.4", "0.6", "0.2">>, "1.6">>, <<<<"0.4", "0.4", "0.6", "0.4">>, "1.8">>,
     <<<<"0.4", "0.4", "0.6", "0.6">>, "2.0">>, <<<<"0.4", "0.6">>, "1.0">>,
     <<<<"0.4", "0.6", "0.2">>, "1.2">>, <<<<"0.4", "0.6", "0.2", "0.2">>, "1.4">>,
     <<<<"0.4", "0.6", "0.2", "0.4">>, "1.6">>, <<<<"0.4", "0.6", "0.2", "0.6">>, "1.8">>,
     <<<<"0.4", "0.6", "0.4">>, "1.4">>, <<<<"0.4", "0.6", "0.4", "0.2">>, "1.6">>,
     <<<<"0.4", "0.6", "0.4", "0.4">>, "1.8">>, <<<<"0.4", "0.6", "0.4", "0.6">>, "2.0">>,
     <<<<"0.4", "0.6", "0.6">>, "1.6">>, <<<<"0.4", "0.6", "0.6", "0.2">>, "1.8">>,
     <<<<"0.4", "0.6", "0.6", "0.4">>, "2.0">>, <<<<"0.4", "0.6", "0.6", "0.6">>, "2.2">>,
     <<<<"0.6">>, "0.6">>, <<<<"0.6", "0.2">>, "0.8">>,
     <<<<"0.6", "0.2", "0.2">>, "1.0">>, <<<<"0.6", "0.2", "0.2", "0.2">>, "1.2">>,
     <<<<"0.6", "0.2", "0.2", "0.4">>, "1.4">>, <<<<"0.6", "0.2", "0.2", "0.6">>, "1.6">>,
     <<<<"0.6", "0.2", "0.4">>, "1.2">>, <<<<"0.6", "0.2", "0.4", "0.2">>, "1.4">>,
     <<<<"0.6", "0.2", "0.4", "0.4">>, "1.6">>, <<<<"0.6", "0.2", "0.4", "0.6">>, "1.8">>,
     <<<<"0.6", "0.2", "0.6">>, "1.4">>, <<<<"0.6", "0.2", "0.6", "0.2">>, "1.6">>,
     <<<<"0.6", "0.2", "0.6", "0.4">>, "1.8">>, <<<<"0.6", "0.2", "0.6", "0.6">>, "2.0">>,
     <<<<"0.6", "0.4">>, "1.0">>, <<<<"0.6", "0.4", "0.2">>, "1.2">>,
     <<<<"0.6", "0.4", "0.2", "0.2">>, "1.4">>, <<<<"0.6", "0.4", "0.2", "0.4">>, "1.6">>,
     <<<<"0.6", "0.4", "0.2", "0.6">>, "1.8">>, <<<<"0.6", "0.4", "0.4">>, "1.4">>,
     <<<<"0.6", "0.4", "0.4", "0.2">>, "1.6">>, <<<<"0.6", "0.4", "0.4", "0.4">>, "1.8">>,
     <<<<"0.6", "0.4", "0.4", "0.6">>, "2.0">>, <<<<"0.6", "0.4", "0.6">>, "1.6">>,
     <<<<"0.6", "0.4", "0.6", "0.2">>, "1.8">>, <<<<"0.6", "0.4", "0.6", "0.4">>, "2.0">>,
     <<<<"0.6", "0.4", "0.6", "0.6">>, "2.2">>, <<<<"0.6", "0.6">>, "1.2">>,
     <<<<"0.6", "0.6", "0.2">>, "1.4">>, <<<<"0.6", "0.6", "0.2", "0.2">>, "1.6">>,
     <<<<"0.6", "0.6", "0.2", "0.4">>, "1.8">>, <<<<"0.6", "0.6", "0.2", "0.6">>, "2.0">>,
     <<<<"0.6", "0.6", "0.4">>, "1.6">>, <<<<"0.6", "0.6", "0.4", "0.2">>, "1.8">>,
     <<<<"0.6", "0.6", "0.4", "0.4">>, "2.0">>, <<<<"0.6", "0.6", "0.4", "0.6">>, "2.2">>,
     <<<<"0.6", "0.6", "0.6">>, "1.7999999999999998">>, <<<<"0.6", "0.6", "0.6", "0.2">>, "2.0">>,
     <<<<"0.6", "0.6", "0.6", "0.4">>, "2.2">>, <<<<"0.6", "0.6", "0.6", "0.6">>, "2.4">>}

\* the double nearest to tenths / (10 * n), the exact mean of n scores
\* that add up to tenths / 10

NearestTable ==
    {<<2, 1, "0.2">>, <<4, 1, "0.4">>, <<4, 2, "0.2">>,
     <<6, 1, "0.6">>, <<6, 2, "0.3">>, <<6, 3, "0.2">>,
     <<8, 2, "0.4">>, <<8, 3, "0.26666666666666666">>, <<8, 4, "0.2">>,
     <<10, 2, "0.5">>, <<10, 3, "0.3333333333333333">>, <<10, 4, "0.25">>,
     <<12, 2, "0.6">>, <<12, 3, "0.4">>, <<12, 4, "0.3">>,
     <<14, 3, "0.4666666666666667">>, <<14, 4, "0.35">>, <<16, 3, "0.5333333333333333">>,
     <<16, 4, "0.4">>, <<18, 3, "0.6">>, <<18, 4, "0.45">>,
     <<20, 4, "0.5">>, <<22, 4, "0.55">>, <<24, 4, "0.6">>}

FloatAdd(x, y) == (CHOOSE e \in FloatAddTable : e[1] = x /\ e[2] = y)[3]

FloatDiv(x, n) == (CHOOSE e \in FloatDivTable : e[1] = x /\ e[2] = n)[3]

\* total += score, from 0, in list order
RECURSIVE PlainSum(_)
PlainSum(scores) ==
    IF scores = <<>> THEN "0.0"
    ELSE FloatAdd(PlainSum(SubSeq(scores, 1, Len(scores) - 1)), scores[Len(scores)])

CompensatedSum(scores) ==
    IF scores = <<>> THEN "0.0"
    ELSE (CHOOSE e \in CompensatedSumTable : e[1] = scores)[2]

\* how the interpreter's sum() adds floats
SumImpls == {"plain", "compensated"}

\* sum(r.sentiment_score for r in results)
BuiltinSum(scores, sum_impl) ==
    IF sum_impl = "plain" THEN PlainSum(scores) ELSE CompensatedSum(scores)

ScoresOf(results) == [i \in 1..Len(results) |-> results[i].sentiment_score]

SentimentSummary(exc, overall, timeline, by_speaker) ==
    [exc |-> exc, overall_sentiment |-> overall, sentiment_timeline |-> timeline,
     speaker_sentiments |-> by_speaker]

NoSummary == SentimentSummary(NoExc, "0.0", <<>>, <<>>)

AnalysisError(e) == Exc("AnalysisError", <<"Sentiment analysis failed">> \o e.msg)

SentimentResults(segments, answers) ==
    [i \in 1..Len(segments) |->
        [speaker_id |-> segments[i].speaker,
         timestamp |-> (segments[i].start + segments[i].end) \div 2,
         sentiment_score |-> answers[i].score,
         text |-> segments[i].text]]

\* an analyze that leaves out the segments whose LLM call failed and
\* answers 0 when nothing is left
SentimentAnalyzeTolerant(segments, answers, sum_impl) ==
    LET ok == {i \in 1..Len(segments) : ~answers[i].raise}
        all == SentimentResults(segments, answers)
        results == SelectSeq(all, LAMBDA r : \E i \in ok : all[i] = r)
        speakers == {results[i].speaker_id : i \in 1..Len(results)}
    IN  IF results = <<>> THEN SentimentSummary(NoExc, "0.0", <<>>, <<>>)
        ELSE SentimentSummary(NoExc,
                 FloatDiv(BuiltinSum(ScoresOf(results), sum_impl), Len(results)),
                 results,
                 [sp \in speakers |->
                     LET mine == SelectSeq(results, LAMBDA r : r.speaker_id = sp)
                     IN  FloatDiv(PlainSum(ScoresOf(mine)), Len(mine))])

\* SentimentAnalyzer.analyze; answers[i] is the LLM's answer for segment i
sentiment_analyze(segments, answers, sum_impl) ==
    IF \E i \in 1..Len(segments) : answers[i].raise
    THEN SentimentSummary(AnalysisError(Exc("LLMAPIError", <<"Sentiment analysis failed">>)),
                          "0.0", <<>>, <<>>)
    ELSE IF segments = <<>>
    THEN SentimentSummary(AnalysisError(Exc("ZeroDivisionError", <<"division by zero">>)),
                          "0.0", <<>>, <<>>)
    ELSE LET results == SentimentResults(segments, answers)
             speakers == {results[i].speaker_id : i \in 1..Len(results)}
         IN  SentimentSummary(NoExc,
                 FloatDiv(BuiltinSum(ScoresOf(results), sum_impl), Len(results)),
                 results,
                 [sp \in speakers |->
                     LET mine == SelectSeq(results, LAMBDA r : r.speaker_id = sp)
                     IN  FloatDiv(PlainSum(ScoresOf(mine)), Len(mine))])

ReportFile == "reports/analysis_report.html"

\* not data.get(key): the key is absent or its list is empty
Lacks(data, key) == key \notin DOMAIN data \/ data[key] = <<>>

\* HTMLReportGenerator.generate; output_dir is the directory as found,
\* mkdir_ok / template_ok / write_ok are the file system and the template
\* engine
generate(output_dir, data, mkdir_ok, template_ok, write_ok) ==
    LET failed(msg, dir) == [exc |-> Exc("ReportGenerationError", msg),
                             path |-> <<>>, output_dir |-> dir]
        made == IF output_dir.exists THEN output_dir
                ELSE [exists |-> TRUE, files |-> {}]
    IN  IF ~output_dir.exists /\ ~mkdir_ok
        THEN failed(<<"Failed to generate report">>, output_dir)
        ELSE IF Lacks(data, "topics") \/ Lacks(data, "transcription")
        THEN failed(<<"Failed to generate report", "Missing required data fields">>, made)
        ELSE IF ~template_ok
        THEN failed(<<"Template error">>, made)
        ELSE IF ~write_ok
        THEN failed(<<"Failed to generate report">>, made)
        ELSE [exc |-> NoExc, path |-> <<ReportFile>>,
              output_dir |-> [made EXCEPT !.files = @ \cup {ReportFile}]]

(***************************************************************************)
(* CombinedProcessor._align_transcription                                  *)
(***************************************************************************)
Times == 0..3

Max2(a, b) == IF a >= b THEN a ELSE b

Min2(a, b) == IF a <= b THEN a ELSE b

\* the pass over speaker_segments [k..] for one word, carrying max_overlap
\* and assigned_speaker, that replaces them on an overlap that is not smaller
RECURSIVE FindSpeakerLastOnTie(_, _, _, _, _)
FindSpeakerLastOnTie(word, speaker_segments, k, max_overlap, assigned_speaker) ==
    IF k > Len(speaker_segments) THEN assigned_speaker
    ELSE LET overlap_start == Max2(word.start, speaker_segments[k].start_time)
             overlap_end == Min2(word.end, speaker_segments[k].end_time)
         IN  IF overlap_end > overlap_start /\ overlap_end - overlap_start >= max_overlap
             THEN FindSpeakerLastOnTie(word, speaker_segments, k + 1,
                                       overlap_end - overlap_start,
                                       speaker_segments[k].speaker_id)
             ELSE FindSpeakerLastOnTie(word, speaker_segments, k + 1,
                                       max_overlap, assigned_speaker)

\* for speaker_seg in speaker_segments: ... if overlap_duration > max_overlap
RECURSIVE FindSpeaker(_, _, _, _, _)
FindSpeaker(word, speaker_segments, k, max_overlap, assigned_speaker) ==
    IF k > Len(speaker_segments) THEN assigned_speaker
    ELSE LET overlap_start == Max2(word.start, speaker_segments[k].start_time)
             overlap_end == Min2(word.end, speaker_segments[k].end_time)
         IN  IF overlap_end > overlap_start /\ overlap_end - overlap_start > max_overlap
             THEN FindSpeaker(word, speaker_segments, k + 1,
                              overlap_end - overlap_start,
                              speaker_segments[k].speaker_id)
             ELSE FindSpeaker(word, speaker_segments, k + 1,
                              max_overlap, assigned_speaker)

\* for word in stable_segments: ... if assigned_speaker: append
RECURSIVE _align_transcription(_, _)
_align_transcription(stable_segments, speaker_segments) ==
    IF stable_segments = <<>> THEN <<>>
    ELSE LET word == Head(stable_segments)
             assigned_speaker == FindSpeaker(word, speaker_segments, 1, 0, None)
             rest == _align_transcription(Tail(stable_segments), speaker_segments)
         IN  IF assigned_speaker # None
             THEN <<[text |-> word.text, start |-> word.start, end |-> word.end,
                     speaker |-> assigned_speaker, confidence |-> 1]>> \o rest
             ELSE rest

\* for seg in speaker_segments: if seg.speaker_id == assigned_speaker and
\* start_time >= seg.start_time and end_time <= seg.end_time: the position
\* of the segment whose text is extended (0 when the loop ends without a break)
RECURSIVE TextTarget(_, _, _, _)
TextTarget(word, speaker_segments, assigned_speaker, k) ==
    IF k > Len(speaker_segments) THEN 0
    ELSE IF /\ speaker_segments[k].speaker_id = assigned_speaker
            /\ word.start >= speaker_segments[k].start_time
            /\ word.end <= speaker_segments[k].end_time
         THEN k
         ELSE TextTarget(word, speaker_segments, assigned_speaker, k + 1)

\* seg.text of every speaker segment after the words [i..] were aligned, as
\* the sequence of the word texts appended to it (texts holds seg.text so far)
RECURSIVE SpeakerTexts(_, _, _, _)
SpeakerTexts(stable_segments, speaker_segments, i, texts) ==
    IF i > Len(stable_segments) THEN texts
    ELSE LET word == stable_segments[i]
             assigned_speaker == FindSpeaker(word, speaker_segments, 1, 0, None)
             k == IF assigned_speaker # None
                  THEN TextTarget(word, speaker_segments, assigned_speaker, 1)
                  ELSE 0
         IN  SpeakerTexts(stable_segments, speaker_segments, i + 1,
                          IF k = 0 THEN texts
                          ELSE [texts EXCEPT ![k] = Append(@, word.text)])

\* the segments stable-ts returns: text i for the i-th one
StableSegments(n) ==
    { [i \in 1..n |-> [text |-> i, start |-> iv[i][1], end |-> iv[i][2]]] :
        iv \in [1..n -> {<<a, b>> \in Times \X Times : a <= b}] }

\* what _create_speaker_segments returns: turns sorted by start_time
SpeakerSegments(n) ==
    { sg \in [1..n -> [start_time : Times, end_time : Times,
                       speaker_id : {Speakers[1], Speakers[2]}]] :
        /\ \A k \in 1..n : sg[k].start_time < sg[k].end_time
        /\ \A k \in 1..(n - 1) : sg[k].start_time <= sg[k + 1].start_time }

(***************************************************************************)
(* CombinedProcessor.process_audio                                         *)
(***************************************************************************)
\* ProcessingError(message, error_type, original_error)
ProcessingError(message, error_type, original_error) ==
    [cls |-> "ProcessingError", msg |-> <<message>>, error_type |-> error_type,
     original_error |-> original_error]

\* the exception a library call of the named step raises
LibraryError(step) == [cls |-> "Exception", msg |-> <<step>>]

\* input_file.parent / f"temp_processed_{input_file.name}"
TempPath == "temp_processed"

\* the step of process_audio that fails first, if any; export may fail
\* before or after the output file was created
FailPoints == {"none", "from_file", "export", "export_partial", "transcribe",
               "diarize", "align", "get_metadata"}

\* preprocess_audio: the exception, the path returned and the files on disk
preprocess_audio(fail_at) ==
    CASE fail_at = "from_file" ->
           [exc |-> ProcessingError("Audio preprocessing failed", "preprocessing",
                                    LibraryError("from_file")),
            path |-> None, disk |-> {}]
      [] fail_at = "export" ->
           [exc |-> ProcessingError("Audio preprocessing failed", "preprocessing",
                                    LibraryError("export")),
            path |-> None, disk |-> {}]
      [] fail_at = "export_partial" ->
           [exc |-> ProcessingError("Audio preprocessing failed", "preprocessing",
                                    LibraryError("export")),
            path |-> None, disk |-> {TempPath}]
      [] OTHER -> [exc |-> NoExc, path |-> TempPath, disk |-> {TempPath}]

get_metadata(file, n, fail_at) ==
    IF fail_at = "get_metadata"
    THEN [exc |-> ProcessingError("Metadata extraction failed", "metadata",
                                  LibraryError("get_metadata")),
          val |-> None]
    ELSE [exc |-> NoExc, val |-> [duration |-> 10 * n, format |-> file.ext]]

\* process_audio: the exception raised or the ProcessingResult returned,
\* and the files left on disk
process_audio(file, stable_segments, speaker_segments, fail_at) ==
    IF ~_validate_file(file)
    THEN [exc |-> ProcessingError("Invalid audio file", "validation", None),
          result |-> None, disk |-> {}]
    ELSE LET pre == preprocess_audio(fail_at)
             processed_audio == pre.path
             metadata == get_metadata(file, Len(stable_segments), fail_at)
             raised == IF pre.exc # NoExc THEN pre.exc
                       ELSE IF fail_at \in {"transcribe", "diarize", "align"}
                       THEN LibraryError(fail_at)
                       ELSE metadata.exc
             \* finally: if processed_audio and Path(processed_audio).exists()
             disk == IF processed_audio # None THEN pre.disk \ {processed_audio}
                     ELSE pre.disk
         IN  IF raised # NoExc
             THEN [exc |-> ProcessingError("Processing failed", "processing", raised),
                   result |-> None, disk |-> disk]
             ELSE [exc |-> NoExc,
                   result |-> [metadata |-> metadata.val,
                               transcription_segments |->
                                   _align_transcription(stable_segments, speaker_segments),
                               speaker_segments |-> speaker_segments,
                               total_speakers |->
                                   Cardinality({speaker_segments[k].speaker_id :
                                                   k \in 1..Len(speaker_segments)})],
                   disk |-> disk]

(***************************************************************************)
(* SQLiteConnection: the thread-local connection                           *)
(***************************************************************************)
Threads == {"t1", "t2"}

\* a sqlite3.Connection object, opened by thread t
Handle(t) == [opened_by |-> t, open |-> TRUE, used_by |-> {}]

ConnOutcome(loc, hs, exc, val) == [local |-> loc, handles |-> hs, exc |-> exc, val |-> val]

Open(loc, hs, t, eng) ==
    IF eng = "fail"
    THEN ConnOutcome(loc, hs,
                     Exc("ConnectionError",
                         <<"Failed to create database connection", EngineMsg>>), <<>>)
    ELSE ConnOutcome([loc EXCEPT ![t] = <<Len(hs) + 1>>], Append(hs, Handle(t)),
                     NoExc, <<Len(hs) + 1>>)

\* a connection property that caches on the object, not per thread
ConnectionShared(loc, hs, t, eng) ==
    LET cached == {u \in Threads : loc[u] # <<>>}
    IN  IF cached # {}
        THEN LET c == loc[CHOOSE u \in cached : TRUE]
             IN  ConnOutcome([loc EXCEPT ![t] = c], hs, NoExc, c)
        ELSE Open(loc, hs, t, eng)

\* the connection property, read by thread t: hasattr(self._local, ...)
connection(loc, hs, t, eng) ==
    IF loc[t] # <<>> THEN ConnOutcome(loc, hs, NoExc, loc[t])
    ELSE Open(loc, hs, t, eng)

\* close(), called by thread t; eng = "fail" is sqlite3.Error from close
close(loc, hs, t, eng) ==
    IF loc[t] = <<>> THEN ConnOutcome(loc, hs, NoExc, <<>>)
    ELSE IF eng = "fail"
    THEN ConnOutcome(loc, hs,
                     Exc("ConnectionError",
                         <<"Failed to close database connection", EngineMsg>>), <<>>)
    ELSE ConnOutcome([loc EXCEPT ![t] = <<>>],
                     [hs EXCEPT ![loc[t][1]].open = FALSE], NoExc, <<>>)

\* __init__ runs _initialize_db on the constructing thread, which opens
\* that thread's connection
ConnConstructed ==
    connection([t \in Threads |-> <<>>], <<>>, "t1", "ok")

ConnCall(op, t, eng, o) ==
    [op |-> op, thread |-> t, eng |-> eng, pre_local |-> local,
     pre_handles |-> handles, exc |-> o.exc, val |-> o.val]

NoConnCall ==
    [op |-> "none", thread |-> "t1", eng |-> "ok", pre_local |-> ConnConstructed.local,
     pre_handles |-> ConnConstructed.handles, exc |-> NoExc, val |-> <<>>]

ConnIdle ==
    /\ local = ConnConstructed.local
    /\ handles = ConnConstructed.handles
    /\ conn_call = NoConnCall

NoUnitCall == [op |-> "none"]

ComponentsIdle ==
    /\ ConnIdle
    /\ unit_last = NoUnitCall
    /\ pa = [pc |-> "idle"]

(***************************************************************************)
(* Pipeline                                                                *)
(***************************************************************************)
\* sentiment analysis placed ahead of topic analysis
ProcessOrderSentimentFirst ==
    <<"process_audio", "snap_transcription", "store_audio", "store_recording",
      "store_transcription", "analyze_sentiment", "snap_sentiment_analysis",
      "analyze_topics", "snap_topic_analysis", "store_sentiment",
      "store_topics", "snap_final_data", "generate", "return">>

\* the audio file and the recording row stored ahead of audio processing
ProcessOrderStoreFirst ==
    <<"store_audio", "store_recording", "process_audio", "snap_transcription",
      "store_transcription", "analyze_topics", "snap_topic_analysis",
      "analyze_sentiment", "snap_sentiment_analysis", "store_sentiment",
      "store_topics", "snap_final_data", "generate", "return">>

\* the statements of Pipeline.process in program order
ProcessOrder ==
    <<"process_audio", "snap_transcription", "store_audio", "store_recording",
      "store_transcription", "analyze_topics", "snap_topic_analysis",
      "analyze_sentiment", "snap_sentiment_analysis", "store_sentiment",
      "store_topics", "snap_final_data", "generate", "return">>

After(p) ==
    LET i == CHOOSE k \in 1..Len(ProcessOrder) : ProcessOrder[k] = p
    IN  ProcessOrder[i + 1]

\* a _save_debug_output whose write failure escapes
SaveDebugOutputRaising(prefix, write_ok) ==
    IF write_ok THEN NoExc ELSE Exc("OSError", <<"debug_output", prefix>>)

\* _save_debug_output: open and json.dump are inside try/except Exception,
\* the failure is logged and nothing is raised
_save_debug_output(prefix, write_ok) ==
    IF write_ok THEN NoExc
    ELSE LET logged == Exc("OSError", <<"debug_output", prefix>>)
         IN  NoExc

\* a handler that raises an exception of its own in place of e
ProcessExitWrapped(e) == Exc("PipelineError", <<e.cls>> \o e.msg)

\* except Exception as e: log; raise
ProcessExit(e) == e

NoProcessingResult == [transcription_segments |-> <<>>,
                       metadata |-> [duration |-> 0, format |-> ""]]

NewRun ==
    [pc |-> ProcessOrder[1], stage |-> "START", stages |-> <<"START">>, calls |-> <<>>,
     processing_result |-> NoProcessingResult, transcription_segments_dict |-> <<>>,
     file_id |-> "", sentiment_result |-> NoSummary, topics_dict |-> <<>>,
     report_path |-> <<>>, stage_exc |-> NoExc, raised |-> NoExc,
     snap_failed |-> {}, ext_ok |-> TRUE]

EmptyStorage == [audio_files |-> {}, report_files |-> {}, snapshots |-> {},
                 versions |-> {}]

\* no pipeline is running (the other specifications)
PipelineIdle ==
    /\ wiring = "repo"
    /\ audio = [ext |-> "wav", exists |-> TRUE]
    /\ run = [NewRun EXCEPT !.pc = "idle"]
    /\ fs = EmptyStorage

\* a collaborator call returned: the call is logged, the flag remembers
\* whether every external collaborator has succeeded so far
Called(r, call, ok) == [r EXCEPT !.calls = Append(@, call), !.ext_ok = @ /\ ok]

Completed(r, stage) == [r EXCEPT !.stage = stage, !.stages = Append(@, stage)]

Goto(r, p) == [r EXCEPT !.pc = p]

\* an exception leaves the try block of process
Fail(r, e) ==
    [r EXCEPT !.pc = "failed", !.stage = "FAILED", !.stages = Append(@, "FAILED"),
              !.stage_exc = e, !.raised = ProcessExit(e)]

\* a test double of the DAO: the call stores its rows durably or raises
double_store(d, table, rows, ok) ==
    IF ok
    THEN LET v == [d EXCEPT ![table] = @ \o rows]
         IN  Outcome(v, v, NoExc, Len(v[table]))
    ELSE Outcome(d, d, Exc("DAOError", <<"double">>), 0)

\* 1. processing_result = self.audio_processor.process_audio(audio_path, ...)
ProcessAudio ==
    /\ run.pc = "process_audio"
    /\ \E models_ok \in BOOLEAN, segments \in Transcripts :
          LET r == Called(run, "process_audio", models_ok /\ segments # <<>>)
          IN  run' =
                IF ~_validate_file(audio)
                THEN Fail(Called(run, "process_audio", FALSE),
                          Exc("ProcessingError", <<"validation">>))
                ELSE IF ~models_ok
                THEN Fail(r, Exc("ProcessingError", <<"processing">>))
                ELSE Goto(Completed(
                        [r EXCEPT !.processing_result =
                                     [transcription_segments |-> segments,
                                      metadata |-> [duration |-> 10 * Len(segments),
                                                    format |-> audio.ext]],
                                  !.transcription_segments_dict =
                                     [i \in 1..Len(segments) |->
                                        [speaker_id |-> segments[i].speaker,
                                         start_time |-> segments[i].start,
                                         end_time |-> segments[i].end,
                                         text |-> segments[i].text]]],
                        "AUDIO_PROCESSED"), After(run.pc))
    /\ UNCHANGED <<comp_vars, dao_vars, topic_vars, wiring, audio, fs>>

SnapPrefix(p) ==
    CASE p = "snap_transcription" -> "transcription"
      [] p = "snap_topic_analysis" -> "topic_analysis"
      [] p = "snap_sentiment_analysis" -> "sentiment_analysis"
      [] p = "snap_final_data" -> "final_data"

SnapPcs == {"snap_transcription", "snap_topic_analysis", "snap_sentiment_analysis",
            "snap_final_data"}

\* self._save_debug_output(prefix, {...})
SaveDebugOutput ==
    /\ run.pc \in SnapPcs
    /\ \E write_ok \in BOOLEAN :
          LET e == _save_debug_output(SnapPrefix(run.pc), write_ok)
              r == [run EXCEPT !.ext_ok = @ /\ write_ok,
                               !.snap_failed = IF write_ok THEN @
                                               ELSE @ \cup {SnapPrefix(run.pc)}]
          IN  /\ run' = IF e # NoExc THEN Fail(r, e) ELSE Goto(r, After(run.pc))
              /\ fs' = IF write_ok
                       THEN [fs EXCEPT !.snapshots = @ \cup {SnapPrefix(run.pc)}]
                       ELSE fs
    /\ UNCHANGED <<comp_vars, dao_vars, topic_vars, wiring, audio>>

\* 2. file_id = self.file_storage.store_audio(audio_path, format=audio_path.suffix[1:])
StoreAudio ==
    /\ run.pc = "store_audio"
    /\ \E new_id \in FileIds, copy_ok \in BOOLEAN :
          LET o == store_audio(fs.audio_files, audio, audio.ext, new_id, copy_ok)
              r == Called(run, "store_audio", copy_ok)
          IN  /\ run' = IF o.exc # NoExc THEN Fail(r, o.exc)
                        ELSE Goto([r EXCEPT !.file_id = o.file_id], After(run.pc))
              /\ fs' = [fs EXCEPT !.audio_files = o.audio_files]
    /\ UNCHANGED <<comp_vars, dao_vars, topic_vars, wiring, audio>>

\* self.dao.store_recording(recording_id=file_id, ...)
StoreRecordingStep ==
    /\ run.pc = "store_recording"
    /\ \E eng \in Engine :
          LET rec == [file_path |-> "audio_path",
                      duration |-> run.processing_result.metadata.duration,
                      recording_date |-> 0,
                      format |-> run.processing_result.metadata.format]
              o == IF wiring = "repo"
                   THEN store_recording(db, conn, run.file_id, rec, eng)
                   ELSE double_store(db, "recordings",
                                     <<WithRecordingId(rec, run.file_id)>>, eng = "ok")
              r == Called(run, "store_recording", eng = "ok")
          IN  /\ run' = IF o.exc # NoExc THEN Fail(r, o.exc)
                        ELSE Goto(Completed(r, "RECORDING_STORED"), After(run.pc))
              /\ db' = o.db
              /\ conn' = o.conn
    /\ UNCHANGED <<comp_vars, dao_last, topic_vars, wiring, audio, fs>>

\* self.dao.store_transcription(file_id, transcription_segments_dict)
StoreTranscriptionStep ==
    /\ run.pc = "store_transcription"
    /\ \E eng \in Engine :
          LET segs == run.transcription_segments_dict
              o == IF wiring = "repo"
                   THEN store_transcription(db, conn, run.file_id, segs, eng)
                   ELSE double_store(db, "transcriptions",
                            [i \in 1..Len(segs) |-> WithRecordingId(segs[i], run.file_id)],
                            eng = "ok")
              r == Called(run, "store_transcription", eng = "ok")
          IN  /\ run' = IF o.exc # NoExc THEN Fail(r, o.exc)
                        ELSE Goto(Completed(r, "TRANSCRIPTION_STORED"), After(run.pc))
              /\ db' = o.db
              /\ conn' = o.conn
    /\ UNCHANGED <<comp_vars, dao_last, topic_vars, wiring, audio, fs>>

\* the LLM answers the pipeline runs meet
PipelineTopicAnswers ==
    {LlmRaise, LlmNotJson} \cup
    { LlmJson([topics |-> [i \in 1..k |-> TopicEntry(<<"A", "B", "C">>[i])]]) :
        k \in 0..MaxTopics }

PipelineHierarchyAnswers ==
    {LlmRaise, LlmJson([hierarchy |-> <<>>]),
     LlmJson([hierarchy |-> <<[parent |-> "A", children |-> <<"B">>]>>])}

\* 3. topic_result = await self.topic_analyzer.analyze(...)
AnalyzeTopics ==
    /\ run.pc = "analyze_topics"
    /\ \E answer_t \in PipelineTopicAnswers, answer_h \in PipelineHierarchyAnswers :
          LET happy == /\ WellFormedTopics(answer_t)
                       /\ WellFormedHierarchy(answer_h)
                       /\ Len(answer_t.data["topics"]) >= 1
              made == [i \in 1..Len(answer_t.data["topics"]) |->
                          NewTopic(answer_t.data["topics"][i]["name"])]
              o == IF wiring = "repo"
                   THEN analyze(answer_t, answer_h)
                   ELSE IF WellFormedTopics(answer_t) /\ WellFormedHierarchy(answer_h)
                   THEN Analysis(NoExc,
                                 _update_topic_relationships(made, answer_h.data["hierarchy"]),
                                 answer_h.data["hierarchy"], <<>>)
                   ELSE Analysis(Exc("TopicAnalysisError", <<"double">>), <<>>, <<>>, <<>>)
              r == Called(run, "topic_analyzer.analyze", happy)
          IN  /\ run' = IF o.exc # NoExc THEN Fail(r, o.exc)
                        ELSE Goto(Completed(r, "TOPICS_ANALYZED"), After(run.pc))
              /\ analysis' = o
              /\ llm_topics' = answer_t
              /\ llm_hierarchy' = answer_h
    /\ UNCHANGED <<comp_vars, dao_vars, topics, hierarchy, t_pc, wiring, audio, fs>>

\* 4. sentiment_result = await self.sentiment_analyzer.analyze(...)
AnalyzeSentiment ==
    /\ run.pc = "analyze_sentiment"
    /\ LET segments == run.processing_result.transcription_segments
       IN  \E answers \in [1..Len(segments) -> SentimentAnswers], sum_impl \in SumImpls :
              LET llm_ok == \A i \in 1..Len(segments) : ~answers[i].raise
                  o == IF wiring = "repo" \/ (llm_ok /\ segments # <<>>)
                       THEN sentiment_analyze(segments, answers, sum_impl)
                       ELSE IF llm_ok
                       THEN NoSummary
                       ELSE SentimentSummary(Exc("AnalysisError", <<"double">>),
                                             "0.0", <<>>, <<>>)
                  r == Called(run, "sentiment_analyzer.analyze", llm_ok)
              IN  run' = IF o.exc # NoExc THEN Fail(r, o.exc)
                         ELSE Goto(Completed([r EXCEPT !.sentiment_result = o],
                                             "SENTIMENT_ANALYZED"), After(run.pc))
    /\ UNCHANGED <<comp_vars, dao_vars, topic_vars, wiring, audio, fs>>

Repeat(x, n) == [i \in 1..n |-> x]

\* for result in sentiment_result.sentiment_timeline: self.dao.store_sentiment(...)
\* SQLiteDAO defines no store_sentiment: the first iteration raises AttributeError
StoreSentiment ==
    /\ run.pc = "store_sentiment"
    /\ \E eng \in Engine :
          LET timeline == run.sentiment_result.sentiment_timeline
              o == IF timeline = <<>>
                   THEN Outcome(db, conn, NoExc, 0)
                   ELSE IF wiring = "repo"
                   THEN Outcome(db, conn,
                                Exc("AttributeError",
                                    <<"'SQLiteDAO' object has no attribute 'store_sentiment'">>),
                                0)
                   ELSE double_store(db, "sentiment",
                            [i \in 1..Len(timeline) |->
                                WithRecordingId(timeline[i], run.file_id)],
                            eng = "ok")
              issued == IF timeline = <<>> THEN <<>>
                        ELSE IF o.exc # NoExc THEN <<"store_sentiment">>
                        ELSE Repeat("store_sentiment", Len(timeline))
              r == [run EXCEPT !.calls = @ \o issued,
                               !.ext_ok = @ /\ (eng = "ok" \/ timeline = <<>>)]
          IN  /\ run' = IF o.exc # NoExc THEN Fail(r, o.exc)
                        ELSE Goto(r, After(run.pc))
              /\ db' = o.db
              /\ conn' = o.conn
    /\ UNCHANGED <<comp_vars, dao_last, topic_vars, wiring, audio, fs>>

RECURSIVE StoreTopicsLoop(_, _, _, _, _)
\* for topic in topic_result.topics: topic_id = self.dao.store_topic(...);
\* topics_dict.append(...).  Returns the DAO outcome, the list built and
\* the number of store_topic calls issued.
StoreTopicsLoop(d, c, file_id, todo, eng) ==
    IF todo = <<>>
    THEN [out |-> Outcome(d, c, NoExc, 0), topics_dict |-> <<>>, issued |-> 0]
    ELSE LET topic == Head(todo)
             data == [topic_name |-> topic.name, start_time |-> topic.start_time,
                      end_time |-> topic.end_time]
             o == IF wiring = "repo"
                  THEN store_topic(d, c, file_id, data, eng)
                  ELSE double_store(c, "topics", <<WithRecordingId(data, file_id)>>,
                                    eng = "ok")
         IN  IF o.exc # NoExc
             THEN [out |-> o, topics_dict |-> <<>>, issued |-> 1]
             ELSE LET rest == StoreTopicsLoop(o.db, o.conn, file_id, Tail(todo), eng)
                  IN  [out |-> rest.out,
                       topics_dict |-> <<[id |-> o.val, name |-> topic.name,
                                          start_time |-> topic.start_time,
                                          end_time |-> topic.end_time]>>
                                       \o rest.topics_dict,
                       issued |-> 1 + rest.issued]

StoreTopics ==
    /\ run.pc = "store_topics"
    /\ \E eng \in Engine :
          LET l == StoreTopicsLoop(db, conn, run.file_id, analysis.topics, eng)
              r == [run EXCEPT !.calls = @ \o Repeat("store_topic", l.issued),
                               !.ext_ok = @ /\ (eng = "ok" \/ analysis.topics = <<>>)]
          IN  /\ run' = IF l.out.exc # NoExc THEN Fail(r, l.out.exc)
                        ELSE Goto(Completed([r EXCEPT !.topics_dict = l.topics_dict],
                                            "TOPICS_STORED"), After(run.pc))
              /\ db' = l.out.db
              /\ conn' = l.out.conn
    /\ UNCHANGED <<comp_vars, dao_last, topic_vars, wiring, audio, fs>>

\* 5. report_path = self.report_generator.generate(discussion_data, reports_path)
Generate ==
    /\ run.pc = "generate"
    /\ \E template_ok \in BOOLEAN, write_ok \in BOOLEAN :
          LET discussion_data == [recording_id |-> run.file_id,
                                  transcription |-> run.transcription_segments_dict,
                                  topics |-> run.topics_dict]
              \* file_storage.reports_path, made by LocalFileStorage.__init__
              o == generate([exists |-> TRUE, files |-> fs.report_files],
                            discussion_data, TRUE, template_ok, write_ok)
              r == Called(run, "generate", template_ok /\ write_ok)
          IN  /\ run' = IF o.exc # NoExc THEN Fail(r, o.exc)
                        ELSE Goto(Completed([r EXCEPT !.report_path = o.path],
                                            "REPORT_GENERATED"), After(run.pc))
              /\ fs' = [fs EXCEPT !.report_files = o.output_dir.files]
    /\ UNCHANGED <<comp_vars, dao_vars, topic_vars, wiring, audio>>

\* return report_path
Return ==
    /\ run.pc = "return"
    /\ run' = Goto(Completed(run, "DONE"), "done")
    /\ UNCHANGED <<comp_vars, dao_vars, topic_vars, wiring, audio, fs>>

Init ==
    /\ ComponentsIdle
    /\ db = EmptyTables /\ conn = EmptyTables /\ dao_last = NoCall
    /\ llm_topics = LlmRaise /\ llm_hierarchy = LlmRaise
    /\ analysis = NoAnalysis
    /\ topics = <<>> /\ hierarchy = <<>>
    /\ t_pc = "idle"
    /\ wiring \in {"repo", "doubles"}
    /\ audio \in [ext : Exts, exists : BOOLEAN]
    /\ run = NewRun
    /\ fs = EmptyStorage

Next ==
    \/ ProcessAudio
    \/ SaveDebugOutput
    \/ StoreAudio
    \/ StoreRecordingStep
    \/ StoreTranscriptionStep
    \/ AnalyzeTopics
    \/ AnalyzeSentiment
    \/ StoreSentiment
    \/ StoreTopics
    \/ Generate
    \/ Return

Spec == Init /\ [][Next]_vars

InitTopic ==
    /\ ComponentsIdle
    /\ db = EmptyTables /\ conn = EmptyTables /\ dao_last = NoCall
    /\ PipelineIdle
    /\ analysis = NoAnalysis
    /\ \/ /\ t_pc = "analyze"
          /\ llm_topics \in TopicAnswers
          /\ llm_hierarchy \in HierarchyAnswers
          /\ topics = <<>> /\ hierarchy = <<>>
       \/ /\ t_pc = "update"
          /\ llm_topics = LlmRaise /\ llm_hierarchy = LlmRaise
          /\ topics \in TopicLists
          /\ \E ps \in ParentLists(MaxEntries) :
                \E lens \in ChildCounts(Len(ps)) :
                   \E flat \in [1..SumTo(lens, Len(ps)) -> TopicNames] :
                      hierarchy = HierarchyOf(ps, lens, flat)

Analyze ==
    /\ t_pc = "analyze"
    /\ analysis' = analyze(llm_topics, llm_hierarchy)
    /\ t_pc' = "analyzed"
    /\ UNCHANGED <<comp_vars, dao_vars, pipe_vars, llm_topics, llm_hierarchy, topics, hierarchy>>

UpdateTopicRelationships ==
    /\ t_pc = "update"
    /\ topics' = _update_topic_relationships(topics, hierarchy)
    /\ t_pc' = "updated"
    /\ UNCHANGED <<comp_vars, dao_vars, pipe_vars, llm_topics, llm_hierarchy, analysis, hierarchy>>

NextTopic ==
    \/ Analyze
    \/ UpdateTopicRelationships

SpecTopic == InitTopic /\ [][NextTopic]_vars

GetDiscussionSummary ==
    \E id \in RecIds, eng \in Engine, eng_rest \in Engine :
        Apply("get_discussion_summary", id, eng_rest, eng,
              get_discussion_summary(db, conn, id, eng, eng_rest))

InitDAO ==
    /\ ComponentsIdle
    /\ db = EmptyTables
    /\ conn = EmptyTables
    /\ dao_last = NoCall
    /\ llm_topics = LlmRaise /\ llm_hierarchy = LlmRaise
    /\ analysis = NoAnalysis
    /\ topics = <<>> /\ hierarchy = <<>>
    /\ t_pc = "idle"
    /\ PipelineIdle

\* dao.conn.close() and the next use of the connection: sqlite3 closes the
\* handle without committing, the reopened one sees the database file
CloseAndReopen ==
    Apply("close", None, None, "ok", Outcome(db, db, NoExc, None))

NextDAO ==
    \/ CloseAndReopen
    \/ StoreRecording
    \/ StoreTranscription
    \/ StoreTopic
    \/ GetRecordingMetadata
    \/ GetTranscription
    \/ GetTopics
    \/ GetDiscussionSummary

SpecDAO == InitDAO /\ [][NextDAO]_vars

(***************************************************************************)
(* SpecConn: two threads using and closing one SQLiteConnection            *)
(***************************************************************************)
OthersIdle ==
    /\ db = EmptyTables /\ conn = EmptyTables /\ dao_last = NoCall
    /\ llm_topics = LlmRaise /\ llm_hierarchy = LlmRaise
    /\ analysis = NoAnalysis
    /\ topics = <<>> /\ hierarchy = <<>>
    /\ t_pc = "idle"
    /\ PipelineIdle

InitConn ==
    /\ OthersIdle
    /\ ComponentsIdle

\* thread t runs a statement: it reads self.connection and uses what it gets
UseConnection ==
    \E t \in Threads, eng \in Engine :
        LET o == connection(local, handles, t, eng)
        IN  /\ Len(o.handles) <= MaxConns
            /\ local' = o.local
            /\ handles' = IF o.exc # NoExc THEN o.handles
                           ELSE [o.handles EXCEPT ![o.val[1]].used_by = @ \cup {t}]
            /\ conn_call' = ConnCall("use", t, eng, o)
            /\ UNCHANGED <<dao_vars, topic_vars, pipe_vars, unit_last, pa>>

CloseConnection ==
    \E t \in Threads, eng \in Engine :
        LET o == close(local, handles, t, eng)
        IN  /\ local' = o.local
            /\ handles' = o.handles
            /\ conn_call' = ConnCall("close", t, eng, o)
            /\ UNCHANGED <<dao_vars, topic_vars, pipe_vars, unit_last, pa>>

NextConn ==
    \/ UseConnection
    \/ CloseConnection

SpecConn == InitConn /\ [][NextConn]_vars

(***************************************************************************)
(* SpecUnit: one call of one component on inputs of its own                *)
(***************************************************************************)
InitUnit ==
    /\ OthersIdle
    /\ ComponentsIdle

\* no component has been called yet
UnitIdle == unit_last = NoUnitCall /\ pa.pc = "idle"

\* segments as any diarization may label them
LabelledSegments(n) ==
    { [i \in 1..n |-> [TranscriptionSegment(i) EXCEPT !.speaker = sp[i]]] :
        sp \in [1..n -> {Speakers[1], Speakers[2]}] }

\* await sentiment_analyzer.analyze(segments)
SentimentAnalyzerAnalyze ==
    /\ UnitIdle
    /\ \E n \in 0..MaxScored :
         \E segments \in LabelledSegments(n), answers \in [1..n -> SentimentAnswers],
            sum_impl \in SumImpls :
             unit_last' = [op |-> "sentiment_analyze", segments |-> segments,
                           answers |-> answers, sum_impl |-> sum_impl,
                           out |-> sentiment_analyze(segments, answers, sum_impl)]
    /\ UNCHANGED <<dao_vars, topic_vars, pipe_vars, local, handles, conn_call, pa>>

\* self._align_transcription(transcription.segments, speaker_segments)
AlignTranscription ==
    /\ UnitIdle
    /\ \E n \in 0..MaxSegs, m \in 0..MaxTurns :
         \E stable_segments \in StableSegments(n), speaker_segments \in SpeakerSegments(m) :
             unit_last' = [op |-> "_align_transcription",
                           stable_segments |-> stable_segments,
                           speaker_segments |-> speaker_segments,
                           out |-> _align_transcription(stable_segments, speaker_segments),
                           texts |-> SpeakerTexts(stable_segments, speaker_segments, 1,
                                                  [k \in 1..Len(speaker_segments) |-> <<>>])]
    /\ UNCHANGED <<dao_vars, topic_vars, pipe_vars, local, handles, conn_call, pa>>

\* processor.process_audio(audio_path) on a file of its own
CombinedProcessorProcessAudio ==
    /\ UnitIdle
    /\ \E exists \in BOOLEAN, ext \in Exts, fail_at \in FailPoints :
         \E stable_segments \in StableSegments(0) \cup StableSegments(1),
            speaker_segments \in SpeakerSegments(0) \cup SpeakerSegments(1) :
             LET file == [exists |-> exists, ext |-> ext]
                 o == process_audio(file, stable_segments, speaker_segments, fail_at)
             IN  pa' = [pc |-> "returned", file |-> file, fail_at |-> fail_at,
                        exc |-> o.exc, result |-> o.result, disk |-> o.disk]
    /\ UNCHANGED <<dao_vars, topic_vars, pipe_vars, local, handles, conn_call, unit_last>>

\* the directory generate is given: missing, empty, or holding a report
OutputDirs == {[exists |-> FALSE, files |-> {}], [exists |-> TRUE, files |-> {}],
               [exists |-> TRUE, files |-> {ReportFile}]}

SomeTopics == <<[name |-> "A"]>>

SomeTranscription == <<[speaker_id |-> Speakers[1], start_time |-> 0, end_time |-> 10,
                        text |-> 1]>>

\* the input maps: either key may be absent, empty or filled
ReportInputs ==
    LET base == [recording_id |-> "f1"]
        tops == {<<>>} \cup {("topics" :> tp) : tp \in {<<>>, SomeTopics}}
        trs == {<<>>} \cup {("transcription" :> tr) : tr \in {<<>>, SomeTranscription}}
    IN  { base @@ tp @@ tr : tp \in tops, tr \in trs }

\* report_generator.generate(data, output_dir)
HTMLReportGeneratorGenerate ==
    /\ UnitIdle
    /\ \E output_dir \in OutputDirs, data \in ReportInputs,
          mkdir_ok \in BOOLEAN, template_ok \in BOOLEAN, write_ok \in BOOLEAN :
             unit_last' = [op |-> "generate", output_dir |-> output_dir, data |-> data,
                           out |-> generate(output_dir, data, mkdir_ok, template_ok,
                                            write_ok)]
    /\ UNCHANGED <<dao_vars, topic_vars, pipe_vars, local, handles, conn_call, pa>>

\* file_storage.store_audio(file, format) on a storage tree of its own
LocalFileStorageStoreAudio ==
    /\ UnitIdle
    /\ \E stored \in SUBSET {[file_id |-> "f1", format |-> "wav"]},
          exists \in BOOLEAN, ext \in Exts, format \in Exts,
          new_id \in FileIds, copy_ok \in BOOLEAN :
             LET file == [exists |-> exists, ext |-> ext]
             IN  unit_last' = [op |-> "store_audio", audio_files |-> stored,
                               file |-> file, format |-> format, copy_ok |-> copy_ok,
                               out |-> store_audio(stored, file, format, new_id, copy_ok)]
    /\ UNCHANGED <<dao_vars, topic_vars, pipe_vars, local, handles, conn_call, pa>>

NextUnit ==
    \/ SentimentAnalyzerAnalyze
    \/ AlignTranscription
    \/ CombinedProcessorProcessAudio
    \/ HTMLReportGeneratorGenerate
    \/ LocalFileStorageStoreAudio

SpecUnit == InitUnit /\ [][NextUnit]_vars

(***************************************************************************)
(* SpecStorage: calls on one LocalFileStorage                              *)
(***************************************************************************)
InitStorage ==
    /\ OthersIdle
    /\ ComponentsIdle

Timestamps == 1..MaxVersions

ReportFormats == {"html", "xml"}

StorageCall(op, arg, out) == [op |-> op, arg |-> arg, pre |-> fs, out |-> out]

\* file_storage.store_audio(file, format)
StorageStoreAudio ==
    /\ \E exists \in BOOLEAN, format \in Exts, copy_ok \in BOOLEAN :
         \E new_id \in _generate_file_id({f.file_id : f \in fs.audio_files}) :
             LET file == [exists |-> exists, ext |-> format]
                 o == store_audio(fs.audio_files, file, format, new_id, copy_ok)
             IN  /\ fs' = [fs EXCEPT !.audio_files = o.audio_files]
                 /\ unit_last' = StorageCall("store_audio",
                                             [file |-> file, format |-> format,
                                              copy_ok |-> copy_ok], o)
    /\ UNCHANGED <<dao_vars, topic_vars, wiring, audio, run, local, handles, conn_call, pa>>

\* file_storage.get_audio(file_id)
StorageGetAudio ==
    /\ \E file_id \in FileIds :
         \E o \in get_audio(fs.audio_files, file_id) :
             unit_last' = StorageCall("get_audio", [file_id |-> file_id], o)
    /\ UNCHANGED <<dao_vars, topic_vars, pipe_vars, local, handles, conn_call, pa>>

\* file_storage.store_report(report_id, data, format) at the second now
StorageStoreReport ==
    /\ \E format \in ReportFormats, now \in Timestamps, write_ok \in BOOLEAN :
         LET o == store_report(fs.versions, "rep1", format, now, write_ok)
         IN  /\ fs' = [fs EXCEPT !.versions = o.versions]
             /\ unit_last' = StorageCall("store_report",
                                         [format |-> format, now |-> now], o)
    /\ UNCHANGED <<dao_vars, topic_vars, wiring, audio, run, local, handles, conn_call, pa>>

\* file_storage.get_report(report_id)
StorageGetReport ==
    /\ \E path \in get_report(fs.versions, "rep1") :
         unit_last' = StorageCall("get_report", [report_id |-> "rep1"], [path |-> path])
    /\ UNCHANGED <<dao_vars, topic_vars, pipe_vars, local, handles, conn_call, pa>>

\* file_storage.cleanup_old_reports(report_id, keep_versions)
StorageCleanupOldReports ==
    /\ \E keep_versions \in 0..MaxVersions, rm_fail \in 0..1 :
         LET o == cleanup_old_reports(fs.versions, "rep1", keep_versions, rm_fail)
         IN  /\ fs' = [fs EXCEPT !.versions = o.versions]
             /\ unit_last' = StorageCall("cleanup_old_reports",
                                         [keep_versions |-> keep_versions], o)
    /\ UNCHANGED <<dao_vars, topic_vars, wiring, audio, run, local, handles, conn_call, pa>>

NextStorage ==
    \/ StorageStoreAudio
    \/ StorageGetAudio
    \/ StorageStoreReport
    \/ StorageGetReport
    \/ StorageCleanupOldReports

SpecStorage == InitStorage /\ [][NextStorage]_vars

(***************************************************************************)
(* Two process_audio calls running at once                                 *)
(***************************************************************************)
\* the calls in flight, 0 standing for "no call" / "no file"
ProcCalls == {1, 2}

\* the input files the calls are given; all pass _validate_file
InputFiles == {"a.wav", "b.wav"}

\* temp_path = input_file.parent / f"temp_processed_{input_file.name}"
temp_path(input_file) == <<TempPath, input_file>>

NoProc == [pc |-> "idle", audio_path |-> None, processed_audio |-> <<>>,
           read |-> <<>>, exc |-> NoExc]

\* pa.disk maps every temp path to the call whose export wrote it last
InitConcurrent ==
    /\ OthersIdle
    /\ ConnIdle
    /\ unit_last = NoUnitCall
    /\ pa = [pc |-> "concurrent",
             calls |-> [c \in ProcCalls |-> NoProc],
             disk |-> [f \in InputFiles |-> 0]]

\* except Exception as e: raise ProcessingError("Processing failed: ...")
Raise(call, e) ==
    [call EXCEPT !.pc = "finally",
                 !.exc = ProcessingError("Processing failed", "processing", e)]

\* process_audio(audio_path): _validate_file passes, processed_audio = None
ProcStart(c) ==
    /\ pa.pc = "concurrent"
    /\ pa.calls[c].pc = "idle"
    /\ \E audio_path \in InputFiles :
         pa' = [pa EXCEPT !.calls[c] = [NoProc EXCEPT !.pc = "preprocess",
                                                     !.audio_path = audio_path]]
    /\ UNCHANGED <<dao_vars, topic_vars, pipe_vars, local, handles, conn_call, unit_last>>

\* processed_audio = self.preprocess_audio(audio_path, config): export
\* creates or overwrites the temp file; a failure is raised again by
\* process_audio with processed_audio still None
ProcPreprocess(c) ==
    /\ pa.pc = "concurrent"
    /\ pa.calls[c].pc = "preprocess"
    /\ \E ok \in BOOLEAN :
         IF ok
         THEN pa' = [pa EXCEPT !.disk[pa.calls[c].audio_path] = c,
                               !.calls[c].processed_audio =
                                   <<temp_path(pa.calls[c].audio_path)>>,
                               !.calls[c].pc = "transcribe"]
         ELSE pa' = [pa EXCEPT !.calls[c] =
                         Raise(@, ProcessingError("Audio preprocessing failed",
                                                  "preprocessing",
                                                  LibraryError("from_file")))]
    /\ UNCHANGED <<dao_vars, topic_vars, pipe_vars, local, handles, conn_call, unit_last>>

\* a library call that opens str(processed_audio): it raises when the file
\* is gone or the library fails, else it reads what the file holds now
ReadTemp(c, step, next) ==
    LET call == pa.calls[c]
        on_disk == pa.disk[call.audio_path]
    IN  \E ok \in BOOLEAN :
          IF on_disk = 0
          THEN pa' = [pa EXCEPT !.calls[c] = Raise(@, LibraryError("FileNotFoundError"))]
          ELSE IF ok
          THEN pa' = [pa EXCEPT !.calls[c].read = Append(@, on_disk),
                                !.calls[c].pc = next]
          ELSE pa' = [pa EXCEPT !.calls[c] = Raise(@, LibraryError(step))]

\* transcription = self.transcriber.transcribe(str(processed_audio), ...)
ProcTranscribe(c) ==
    /\ pa.pc = "concurrent"
    /\ pa.calls[c].pc = "transcribe"
    /\ ReadTemp(c, "transcribe", "diarize")
    /\ UNCHANGED <<dao_vars, topic_vars, pipe_vars, local, handles, conn_call, unit_last>>

\* diarization = self.diarizer(str(processed_audio)); the steps after it
\* do not touch the temp file
ProcDiarize(c) ==
    /\ pa.pc = "concurrent"
    /\ pa.calls[c].pc = "diarize"
    /\ ReadTemp(c, "diarize", "finally")
    /\ UNCHANGED <<dao_vars, topic_vars, pipe_vars, local, handles, conn_call, unit_last>>

\* finally: if processed_audio and Path(processed_audio).exists(): unlink()
ProcFinally(c) ==
    /\ pa.pc = "concurrent"
    /\ pa.calls[c].pc = "finally"
    /\ LET call == pa.calls[c]
           done == IF call.exc = NoExc THEN "returned" ELSE "raised"
       IN  IF call.processed_audio # <<>> /\ pa.disk[call.audio_path] # 0
           THEN pa' = [pa EXCEPT !.disk[call.audio_path] = 0, !.calls[c].pc = done]
           ELSE pa' = [pa EXCEPT !.calls[c].pc = done]
    /\ UNCHANGED <<dao_vars, topic_vars, pipe_vars, local, handles, conn_call, unit_last>>

NextConcurrent ==
    \E c \in ProcCalls :
        \/ ProcStart(c)
        \/ ProcPreprocess(c)
        \/ ProcTranscribe(c)
        \/ ProcDiarize(c)
        \/ ProcFinally(c)

SpecConcurrent == InitConcurrent /\ [][NextConcurrent]_vars

(***************************************************************************)
(* Two Pipeline.process invocations on one storage root                    *)
(***************************************************************************)
Invocations == {1, 2}

NoInvocation == [pc |-> "idle", audio |-> None, file_id |-> "", wrote |-> {}]

\* audio/{file_id}.{format} under the storage root
AudioFile(f) == <<"audio", f.file_id, f.format>>

\* run.runs[i] is invocation i: its position and the paths it has written
InitShared ==
    /\ db = EmptyTables /\ conn = EmptyTables /\ dao_last = NoCall
    /\ llm_topics = LlmRaise /\ llm_hierarchy = LlmRaise
    /\ analysis = NoAnalysis
    /\ topics = <<>> /\ hierarchy = <<>>
    /\ t_pc = "idle"
    /\ ComponentsIdle
    /\ wiring = "doubles"
    /\ audio = [ext |-> "wav", exists |-> TRUE]
    /\ run = [pc |-> "shared", runs |-> [i \in Invocations |-> NoInvocation]]
    /\ fs = EmptyStorage

\* process(audio_path): process_audio accepted the file and wrote nothing
\* under the storage root
SharedProcessAudio(i) ==
    /\ run.pc = "shared"
    /\ run.runs[i].pc = "idle"
    /\ \E file \in [ext : Exts, exists : {TRUE}] :
         /\ _validate_file(file)
         /\ run' = [run EXCEPT !.runs[i] = [NoInvocation EXCEPT !.pc = "store_audio",
                                                              !.audio = file]]
    /\ UNCHANGED <<comp_vars, dao_vars, topic_vars, wiring, audio, fs>>

\* file_id = self.file_storage.store_audio(audio_path, format=audio_path.suffix[1:])
SharedStoreAudio(i) ==
    /\ run.pc = "shared"
    /\ run.runs[i].pc = "store_audio"
    /\ \E new_id \in _generate_file_id({f.file_id : f \in fs.audio_files}),
          copy_ok \in BOOLEAN :
          LET me == run.runs[i]
              o == store_audio(fs.audio_files, me.audio, me.audio.ext, new_id, copy_ok)
          IN  /\ fs' = [fs EXCEPT !.audio_files = o.audio_files]
              /\ run' = [run EXCEPT !.runs[i] =
                           IF o.exc # NoExc THEN [me EXCEPT !.pc = "failed"]
                           ELSE [me EXCEPT !.pc = "stages", !.file_id = o.file_id,
                                           !.wrote = @ \cup {AudioFile(f) :
                                               f \in o.audio_files \ fs.audio_files}]]
    /\ UNCHANGED <<comp_vars, dao_vars, topic_vars, wiring, audio>>

\* store_recording ... store_topic: the collaborators either all return or
\* one raises and process re-raises; none writes under the storage root
SharedStages(i) ==
    /\ run.pc = "shared"
    /\ run.runs[i].pc = "stages"
    /\ \E ok \in BOOLEAN :
         run' = [run EXCEPT !.runs[i].pc = IF ok THEN "generate" ELSE "failed"]
    /\ UNCHANGED <<comp_vars, dao_vars, topic_vars, wiring, audio, fs>>

\* report_path = self.report_generator.generate(discussion_data,
\*                                              self.file_storage.reports_path)
SharedGenerate(i) ==
    /\ run.pc = "shared"
    /\ run.runs[i].pc = "generate"
    /\ \E template_ok \in BOOLEAN, write_ok \in BOOLEAN :
          LET me == run.runs[i]
              discussion_data == [recording_id |-> me.file_id,
                                  transcription |-> SomeTranscription,
                                  topics |-> SomeTopics]
              o == generate([exists |-> TRUE, files |-> fs.report_files],
                            discussion_data, TRUE, template_ok, write_ok)
          IN  /\ fs' = [fs EXCEPT !.report_files = o.output_dir.files]
              /\ run' = [run EXCEPT !.runs[i] =
                           IF o.exc # NoExc THEN [me EXCEPT !.pc = "failed"]
                           ELSE [me EXCEPT !.pc = "returned",
                                           !.wrote = @ \cup {o.path}]]
    /\ UNCHANGED <<comp_vars, dao_vars, topic_vars, wiring, audio>>

NextShared ==
    \E i \in Invocations :
        \/ SharedProcessAudio(i)
        \/ SharedStoreAudio(i)
        \/ SharedStages(i)
        \/ SharedGenerate(i)

SpecShared == InitShared /\ [][NextShared]_vars



(***************************************************************************)
(* Properties of Pipeline.process                                          *)
(***************************************************************************)
StageOrder ==
    <<"START", "AUDIO_PROCESSED", "RECORDING_STORED", "TRANSCRIPTION_STORED",
      "TOPICS_ANALYZED", "SENTIMENT_ANALYZED", "TOPICS_STORED", "REPORT_GENERATED",
      "DONE">>

IsPrefix(s, t) == Len(s) <= Len(t) /\ s = SubSeq(t, 1, Len(s))

Last(s) == s[Len(s)]

Front(s) == SubSeq(s, 1, Len(s) - 1)

Ended == ~ENABLED Next

TopicRowsOf(view, recording_id) ==
    SelectSeq(view.topics, LAMBDA row : row["recording_id"] = recording_id)

\* C1: a run in which every external collaborator succeeded (at least one
\* segment, well-formed LLM answers with at least one topic, file system and
\* database accepting the writes) does not end anywhere but in DONE, with a
\* report path that exists and one committed topic row per analysed topic
C1_HappyRunCompletes ==
    (/\ Ended
     /\ run.ext_ok
     /\ _validate_audio_format(audio.ext) = NoExc)
    => /\ run.stage = "DONE"
       /\ run.report_path # <<>>
       /\ run.report_path[1] \in fs.report_files
       /\ Len(TopicRowsOf(db, run.file_id)) = Len(analysis.topics)

\* C2: the stages complete in the order START, AUDIO_PROCESSED,
\* RECORDING_STORED, TRANSCRIPTION_STORED, TOPICS_ANALYZED, SENTIMENT_ANALYZED,
\* TOPICS_STORED, REPORT_GENERATED, DONE, none skipped or repeated; a run ends
\* in DONE or in FAILED only, and nothing follows either
C2_StageOrder ==
    /\ run.stage = Last(run.stages)
    /\ \/ IsPrefix(run.stages, StageOrder)
       \/ /\ Last(run.stages) = "FAILED"
          /\ IsPrefix(Front(run.stages), Front(StageOrder))
    /\ Ended <=> run.stage \in {"DONE", "FAILED"}

C2_Witness ==
    /\ run.stages = StageOrder
    /\ Ended

\* the calls process makes on its collaborators, in program order; the two
\* loops call once per timeline entry and once per topic
RECURSIVE CallPlanMatches(_, _)
CallPlanMatches(calls, plan) ==
    IF calls = <<>> THEN TRUE
    ELSE IF plan = <<>> THEN FALSE
    ELSE IF Head(plan) \in {"store_sentiment", "store_topic"}
    THEN \/ CallPlanMatches(calls, Tail(plan))
         \/ Head(calls) = Head(plan) /\ CallPlanMatches(Tail(calls), plan)
    ELSE Head(calls) = Head(plan) /\ CallPlanMatches(Tail(calls), Tail(plan))

CallPlan ==
    <<"process_audio", "store_audio", "store_recording", "store_transcription",
      "topic_analyzer.analyze", "sentiment_analyzer.analyze", "store_sentiment",
      "store_topic", "generate">>

\* the stage a call belongs to completes when the call has returned
StageOfCall(call) ==
    CASE call = "process_audio" -> "AUDIO_PROCESSED"
      [] call = "store_audio" -> "RECORDING_STORED"
      [] call = "store_recording" -> "RECORDING_STORED"
      [] call = "store_transcription" -> "TRANSCRIPTION_STORED"
      [] call = "topic_analyzer.analyze" -> "TOPICS_ANALYZED"
      [] call = "sentiment_analyzer.analyze" -> "SENTIMENT_ANALYZED"
      [] call = "store_sentiment" -> "TOPICS_STORED"
      [] call = "store_topic" -> "TOPICS_STORED"
      [] call = "generate" -> "REPORT_GENERATED"

\* C3: when a stage has raised, process raises that very exception, no
\* report path is returned, the failed call is the last call made (nothing
\* later is invoked, nothing is retried) and the run is over
C3_FailurePropagatesUnchanged ==
    run.stage = "FAILED" =>
        /\ run.stage_exc # NoExc
        /\ run.raised = run.stage_exc
        /\ run.report_path = <<>>
        /\ run.calls # <<>>
        /\ CallPlanMatches(run.calls, CallPlan)
        /\ StageOfCall(Last(run.calls)) \notin
              {run.stages[i] : i \in 1..Len(run.stages)}
        /\ Ended

\* a stage in the middle of the run raised, after rows had been stored
C3_Witness ==
    /\ run.stage = "FAILED"
    /\ Last(run.calls) = "topic_analyzer.analyze"
    /\ db.recordings # <<>>
    /\ run.raised.cls = "TopicAnalysisError"

Calls == {run.calls[i] : i \in 1..Len(run.calls)}

\* C4: store_audio and store_recording are called only after process_audio
\* has returned successfully; without that there is no stored audio file
\* and no recording row, committed or pending
C4_StoreOnlyAfterProcessing ==
    /\ (Calls \cap {"store_audio", "store_recording"} # {}) =>
          /\ run.calls[1] = "process_audio"
          /\ run.stages[2] = "AUDIO_PROCESSED"
    /\ (Len(run.stages) < 2 \/ run.stages[2] # "AUDIO_PROCESSED") =>
          /\ fs.audio_files = {}
          /\ db.recordings = <<>>
          /\ conn.recordings = <<>>

\* process_audio raised in its models, for a file it accepted
C4_Witness ==
    /\ run.stage = "FAILED"
    /\ run.calls = <<"process_audio">>
    /\ _validate_file(audio)
    /\ fs.audio_files = {}
    /\ db.recordings = <<>>

\* the run without its snapshot bookkeeping
Core(r) == [r EXCEPT !.snap_failed = {}, !.ext_ok = TRUE]

\* C5: a snapshot step, whether its write fails or not, goes on to the
\* statement after it and changes nothing else of the run, of the database
\* or of the stored files: what follows is the same in both cases
C5_SnapshotFailureSwallowed ==
    [][run.pc \in SnapPcs =>
          /\ Core(run') = Core(Goto(run, After(run.pc)))
          /\ db' = db /\ conn' = conn
          /\ fs'.audio_files = fs.audio_files
          /\ fs'.report_files = fs.report_files]_vars

\* all four snapshot writes failed and the run ended in DONE
C5_Witness ==
    /\ run.snap_failed = {"transcription", "topic_analysis", "sentiment_analysis",
                          "final_data"}
    /\ fs.snapshots = {}
    /\ run.stage = "DONE"
    /\ run.report_path # <<>>


(***************************************************************************)
(* Properties                                                              *)
(***************************************************************************)
TopicsEntries == llm_topics.data["topics"]

\* C6: for well-formed responses with n >= 1 topic entries, analyze returns
\* exactly n Topics, in response order, with the entries' name, start_time
\* and end_time
C6_AnalyzeReturnsTopics ==
    (/\ t_pc = "analyzed"
     /\ WellFormedTopics(llm_topics)
     /\ WellFormedHierarchy(llm_hierarchy)
     /\ Len(TopicsEntries) >= 1)
    => /\ analysis.exc = NoExc
       /\ Len(analysis.topics) = Len(TopicsEntries)
       /\ \A i \in 1..Len(TopicsEntries) :
            /\ analysis.topics[i].name = TopicsEntries[i]["name"]
            /\ analysis.topics[i].start_time = TopicsEntries[i]["start_time"]
            /\ analysis.topics[i].end_time = TopicsEntries[i]["end_time"]

Children(e) == {e.children[k] : k \in 1..Len(e.children)}

EntryKnown(ts, e) == e.parent \in TopicMapKeys(ts) /\ Children(e) \subseteq TopicMapKeys(ts)

SubtopicsAsListed(ts, e) ==
    ts[TopicMap(ts, e.parent)].subtopics =
        << [k \in 1..Len(e.children) |-> TopicMap(ts, e.children[k])] >>

\* the last entry of the hierarchy map, with a known parent, that lists child
LastParentOf(ts, h, child) ==
    LET listing == {j \in 1..Len(h) :
                        h[j].parent \in TopicMapKeys(ts) /\ child \in Children(h[j])}
    IN  h[CHOOSE j \in listing : \A k \in listing : k <= j].parent

\* names that are not known topics appear in no subtopics list: every
\* subtopic is one of the Topic objects and was listed under that parent
SubtopicsOnlyKnown(ts, h) ==
    \A i \in 1..Len(ts) : ts[i].subtopics # <<>> =>
        \A k \in 1..Len(ts[i].subtopics[1]) :
            /\ ts[i].subtopics[1][k] \in 1..Len(ts)
            /\ \E j \in 1..Len(h) :
                   /\ h[j].parent = ts[i].name
                   /\ ts[ts[i].subtopics[1][k]].name \in Children(h[j])

\* C7 (as claimed): after _update_topic_relationships, for every hierarchy
\* entry whose parent and children are all known topic names, the parent's
\* subtopics is the list of the child Topics in the listed order and every
\* such child's parent_topic is that parent's name; unknown names appear in
\* no subtopics list
C7_HierarchyConsistent ==
    t_pc = "updated" =>
        /\ \A i \in 1..Len(hierarchy) : EntryKnown(topics, hierarchy[i]) =>
              /\ SubtopicsAsListed(topics, hierarchy[i])
              /\ \A c \in Children(hierarchy[i]) :
                     topics[TopicMap(topics, c)].parent_topic = <<hierarchy[i].parent>>
        /\ SubtopicsOnlyKnown(topics, hierarchy)

\* C7 (amended): as above, but a child's parent_topic is the name of the
\* last entry of the hierarchy map, with a known parent, that lists it
C7_HierarchyConsistentLastParent ==
    t_pc = "updated" =>
        /\ \A i \in 1..Len(hierarchy) : EntryKnown(topics, hierarchy[i]) =>
              /\ SubtopicsAsListed(topics, hierarchy[i])
              /\ \A c \in Children(hierarchy[i]) :
                     topics[TopicMap(topics, c)].parent_topic =
                         <<LastParentOf(topics, hierarchy, c)>>
        /\ SubtopicsOnlyKnown(topics, hierarchy)

\* an all-known entry with two children, one of them also listed under a
\* later known parent, next to an entry that names an unknown topic
C7_Witness ==
    /\ t_pc = "updated"
    /\ \E i, j \in 1..Len(hierarchy) :
          /\ i < j
          /\ EntryKnown(topics, hierarchy[i])
          /\ Len(hierarchy[i].children) = 2
          /\ hierarchy[j].parent \in TopicMapKeys(topics)
          /\ Children(hierarchy[i]) \cap Children(hierarchy[j]) # {}
          /\ ~(Children(hierarchy[j]) \subseteq TopicMapKeys(topics))

StoredRow(view, recording_id) ==
    SelectSeq(view.recordings, LAMBDA row : row.recording_id = recording_id)

\* C8: store_recording with a recording_id that is already stored raises
\* DataIntegrityError whose message has the id and "already exists", and
\* get_recording_metadata afterwards returns the row stored first, unchanged
C8_DuplicateRecordingRejected ==
    (/\ dao_last.op = "store_recording"
     /\ dao_last.eng = "ok"
     /\ dao_last.recording_id \in RecordingIds(dao_last.pre))
    => /\ dao_last.exc.cls = "DataIntegrityError"
       /\ Contains(dao_last.exc.msg, dao_last.recording_id)
       /\ Contains(dao_last.exc.msg, "already exists")
       /\ LET got == get_recording_metadata(db, conn, dao_last.recording_id, "ok")
          IN  /\ got.exc = NoExc
              /\ got.val = StoredRow(dao_last.pre, dao_last.recording_id)
              /\ got.val = StoredRow(db, dao_last.recording_id)

\* the second call carries other field values than the stored row
C8_Witness ==
    /\ dao_last.op = "store_recording"
    /\ dao_last.eng = "ok"
    /\ dao_last.recording_id \in RecordingIds(dao_last.pre)
    /\ StoredRow(dao_last.pre, dao_last.recording_id)[1].file_path # dao_last.arg.file_path
    /\ StoredRow(dao_last.pre, dao_last.recording_id)[1].duration # dao_last.arg.duration

\* C9: every DAO write is one atomic transaction: when the call has returned
\* or raised, its rows are all committed or all absent and nothing is left
\* uncommitted on the connection
C9_WritesAtomic ==
    dao_last.op \in {"store_recording", "store_transcription", "store_topic"}
    => /\ conn = db
       /\ \/ dao_last.exc = NoExc
          \/ db = dao_last.pre_db

Project(rows) ==
    [k \in 1..Len(rows) |->
        [speaker_id |-> rows[k].speaker_id, start_time |-> rows[k].start_time,
         end_time |-> rows[k].end_time, text |-> rows[k].text]]

\* C10: segments given as maps of speaker_id, start_time, end_time and text,
\* stored for an existing recording, come back from get_transcription (no
\* time filter) complete, ordered by start_time, with the same field values
C10_TranscriptionRoundTrip ==
    (/\ dao_last.op = "store_transcription"
     /\ dao_last.eng = "ok"
     /\ IsBare(dao_last.arg)
     /\ dao_last.recording_id \in RecordingIds(dao_last.pre)
     /\ get_transcription(dao_last.pre_db, dao_last.pre, dao_last.recording_id,
                          NoTime, NoTime, "ok").val = <<>>)
    => /\ dao_last.exc = NoExc
       /\ Project(get_transcription(db, conn, dao_last.recording_id,
                                    NoTime, NoTime, "ok").val)
            = OrderByStartTime(dao_last.arg)

IsFull(segments) ==
    \A k \in 1..Len(segments) : "confidence" \in DOMAIN segments[k]

\* the last call was a write whose statement violates a constraint of the
\* schema: a stored recording_id again, or rows for a recording_id never stored
ConstraintViolated ==
    /\ dao_last.eng = "ok"
    /\ \/ /\ dao_last.op = "store_recording"
          /\ dao_last.recording_id \in RecordingIds(dao_last.pre)
       \/ /\ dao_last.op = "store_transcription"
          /\ dao_last.recording_id \notin RecordingIds(dao_last.pre)
          /\ dao_last.arg # <<>>
          /\ IsFull(dao_last.arg)
       \/ /\ dao_last.op = "store_topic"
          /\ dao_last.recording_id \notin RecordingIds(dao_last.pre)
          /\ "importance_score" \in DOMAIN dao_last.arg

\* C12: every constraint violation on a DAO write surfaces as
\* DataIntegrityError, never as a plain DAOError or QueryError
C12_ConstraintViolationIsIntegrityError ==
    ConstraintViolated => dao_last.exc.cls = "DataIntegrityError"

\* C13: a thread's connection is created on its first use and reused until
\* it calls close; no connection is used by a thread other than the one that
\* opened it; close closes the caller's connection only, does nothing when
\* the caller has none, and the caller's next use opens a fresh connection
C13_ThreadLocalConnections ==
    /\ \A h \in 1..Len(handles) : handles[h].used_by \subseteq {handles[h].opened_by}
    /\ \A t \in Threads : local[t] # <<>> =>
           /\ handles[local[t][1]].open
           /\ handles[local[t][1]].opened_by = t
    /\ (conn_call.op = "use" /\ conn_call.eng = "ok") =>
           /\ conn_call.exc = NoExc
           /\ local[conn_call.thread] = conn_call.val
           /\ IF conn_call.pre_local[conn_call.thread] # <<>>
              THEN /\ conn_call.val = conn_call.pre_local[conn_call.thread]
                   /\ Len(handles) = Len(conn_call.pre_handles)
              ELSE /\ conn_call.val = <<Len(conn_call.pre_handles) + 1>>
                   /\ Len(handles) = Len(conn_call.pre_handles) + 1
           /\ \A u \in Threads \ {conn_call.thread} : local[u] = conn_call.pre_local[u]
    /\ (conn_call.op = "close" /\ conn_call.eng = "ok") =>
           /\ conn_call.exc = NoExc
           /\ local[conn_call.thread] = <<>>
           /\ \A u \in Threads \ {conn_call.thread} : local[u] = conn_call.pre_local[u]
           /\ Len(handles) = Len(conn_call.pre_handles)
           /\ \A h \in 1..Len(handles) :
                  handles[h].open = (/\ conn_call.pre_handles[h].open
                                     /\ <<h>> # conn_call.pre_local[conn_call.thread])
           /\ conn_call.pre_local[conn_call.thread] = <<>> =>
                  handles = conn_call.pre_handles

\* a thread that closed its connection (twice) uses the database again and
\* gets a fresh one while the other thread keeps its own
C13_Witness ==
    /\ conn_call.op = "use"
    /\ conn_call.eng = "ok"
    /\ conn_call.pre_local[conn_call.thread] = <<>>
    /\ \E h \in 1..Len(conn_call.pre_handles) :
           /\ handles[h].opened_by = conn_call.thread
           /\ ~handles[h].open
    /\ \E u \in Threads \ {conn_call.thread} :
           local[u] # <<>> /\ local[u] # local[conn_call.thread]

Permuted(seq, p) == [i \in 1..Len(seq) |-> seq[p[i]]]

RECURSIVE TenthsSum(_)
TenthsSum(scores) ==
    IF scores = <<>> THEN 0 ELSE Tenths(Head(scores)) + TenthsSum(Tail(scores))

\* the double nearest to the exact mean of the scores
ExactMean(scores) ==
    (CHOOSE e \in NearestTable : e[1] = TenthsSum(scores) /\ e[2] = Len(scores))[3]

SentimentReturned ==
    /\ unit_last.op = "sentiment_analyze"
    /\ unit_last.out.exc = NoExc

\* C14: for a non-empty segment list whose LLM calls all succeed,
\* overall_sentiment is the sum of all scores divided by their count,
\* speaker_sentiments[s] is the mean of the scores of the segments labelled s,
\* and both are the same for every permutation of the input segments
C14_MeanAndPermutationInvariant ==
    SentimentReturned =>
        LET out == unit_last.out
            scores == ScoresOf(out.sentiment_timeline)
        IN  /\ out.overall_sentiment = ExactMean(scores)
            /\ \A sp \in DOMAIN out.speaker_sentiments :
                   out.speaker_sentiments[sp] =
                       ExactMean(ScoresOf(SelectSeq(out.sentiment_timeline,
                                                    LAMBDA r : r.speaker_id = sp)))
            /\ \A p \in Permutations(1..Len(unit_last.segments)) :
                   LET again == sentiment_analyze(Permuted(unit_last.segments, p),
                                                  Permuted(unit_last.answers, p),
                                                  unit_last.sum_impl)
                   IN  /\ again.overall_sentiment = out.overall_sentiment
                       /\ again.speaker_sentiments = out.speaker_sentiments

\* C15: analyze is all-or-nothing: it returns a summary only when there is
\* at least one segment and every segment's LLM call succeeded; with zero
\* segments, or when any one call fails, it raises AnalysisError and returns
\* no partial result
C15_AllOrNothing ==
    unit_last.op = "sentiment_analyze" =>
        LET out == unit_last.out
            n == Len(unit_last.segments)
            complete == n >= 1 /\ \A i \in 1..n : ~unit_last.answers[i].raise
        IN  /\ complete =>
                /\ out.exc = NoExc
                /\ Len(out.sentiment_timeline) = n
            /\ ~complete =>
                /\ out.exc.cls = "AnalysisError"
                /\ out.sentiment_timeline = <<>>
                /\ out.speaker_sentiments = <<>>

\* the first segment was scored, the second segment's call failed, and the
\* whole call raised
C15_Witness ==
    /\ unit_last.op = "sentiment_analyze"
    /\ Len(unit_last.segments) >= 2
    /\ ~unit_last.answers[1].raise
    /\ unit_last.answers[2].raise
    /\ unit_last.out.exc.cls = "AnalysisError"

\* seconds the word and the speaker segment share
Overlap(word, seg) ==
    LET d == Min2(word.end, seg.end_time) - Max2(word.start, seg.start_time)
    IN  IF d > 0 THEN d ELSE 0

\* the earliest of the speaker segments the word overlaps most, 0 when it
\* overlaps none
BestSegment(word, speaker_segments) ==
    LET over == {k \in 1..Len(speaker_segments) : Overlap(word, speaker_segments[k]) > 0}
        most == {k \in over : \A j \in over :
                    Overlap(word, speaker_segments[k]) >= Overlap(word, speaker_segments[j])}
    IN  IF over = {} THEN 0 ELSE CHOOSE k \in most : \A j \in most : k <= j

\* C16: a transcription unit that overlaps exactly one speaker segment gets
\* that speaker; one that overlaps several gets the speaker of the segment
\* with the largest overlap, the earliest such segment on a tie; one that
\* overlaps none is left out; the output keeps the order of the input
C16_AlignByLargestOverlap ==
    unit_last.op = "_align_transcription" =>
        LET words == unit_last.stable_segments
            segs == unit_last.speaker_segments
            kept == SelectSeq(words, LAMBDA w : BestSegment(w, segs) # 0)
        IN  /\ Len(unit_last.out) = Len(kept)
            /\ \A i \in 1..Len(kept) :
                   /\ unit_last.out[i].text = kept[i].text
                   /\ unit_last.out[i].start = kept[i].start
                   /\ unit_last.out[i].end = kept[i].end
                   /\ unit_last.out[i].speaker = segs[BestSegment(kept[i], segs)].speaker_id

\* one unit overlaps two speakers' segments equally and gets the earlier
\* speaker, another unit overlaps nothing and is left out
C16_Witness ==
    /\ unit_last.op = "_align_transcription"
    /\ Len(unit_last.out) < Len(unit_last.stable_segments)
    /\ \E i \in 1..Len(unit_last.stable_segments) :
           LET w == unit_last.stable_segments[i]
               segs == unit_last.speaker_segments
           IN  /\ Len(segs) = 2
               /\ Overlap(w, segs[1]) > 0
               /\ Overlap(w, segs[1]) = Overlap(w, segs[2])
               /\ segs[1].speaker_id # segs[2].speaker_id
               /\ \E j \in 1..Len(unit_last.out) :
                      /\ unit_last.out[j].text = w.text
                      /\ unit_last.out[j].speaker = segs[1].speaker_id

\* C17: on every exit path of process_audio (normal return, or an exception
\* raised during preprocessing, transcription, diarization, alignment or
\* metadata extraction) no temporary preprocessed file created by the call
\* remains on disk
C17_NoTempFileRemains ==
    pa.pc = "returned" => pa.disk = {}

\* the step of process_audio that failed, as a stage tag
StageTag(fail_at) ==
    CASE fail_at \in {"from_file", "export", "export_partial"} -> "preprocessing"
      [] fail_at \in {"transcribe", "diarize", "align"} -> "processing"
      [] fail_at = "get_metadata" -> "metadata"

\* C18: every failure of process_audio surfaces as one ProcessingError whose
\* stage tag names the stage that failed (validation, preprocessing,
\* processing, metadata) and whose original cause is the underlying error of
\* that stage
C18_FailureTaggedWithStage ==
    (pa.pc = "returned" /\ pa.exc # NoExc) =>
        /\ pa.exc.cls = "ProcessingError"
        /\ IF ~_validate_file(pa.file)
           THEN pa.exc.error_type = "validation"
           ELSE /\ pa.exc.error_type = StageTag(pa.fail_at)
                /\ pa.exc.original_error.cls = "Exception"

\* C19: generate called with an input map that lacks topics or
\* transcription, or has either one empty, raises ReportGenerationError
\* without writing any file, and output_dir and everything under it is the
\* same after the call as before it
C19_RequiredFieldGate ==
    (/\ unit_last.op = "generate"
     /\ \/ Lacks(unit_last.data, "topics")
        \/ Lacks(unit_last.data, "transcription")) =>
        /\ unit_last.out.exc.cls = "ReportGenerationError"
        /\ unit_last.out.output_dir = unit_last.output_dir

\* C20: store_audio with a format outside the allow-list wav, mp3, m4a
\* (compared without regard to case) raises InvalidFormatError and leaves the
\* storage tree unchanged: no file is created or copied
C20_FormatGateBeforeCopy ==
    (/\ unit_last.op = "store_audio"
     /\ Lower(unit_last.format) \notin {"wav", "mp3", "m4a"}) =>
        /\ unit_last.out.exc.cls = "InvalidFormatError"
        /\ unit_last.out.audio_files = unit_last.audio_files

\* an existing file that could be copied is offered as flac and rejected
C20_Witness ==
    /\ unit_last.op = "store_audio"
    /\ unit_last.format = "flac"
    /\ unit_last.file.exists
    /\ unit_last.copy_ok
    /\ unit_last.out.exc.cls = "InvalidFormatError"

StoredAudio ==
    /\ unit_last.op = "store_audio"
    /\ "pre" \in DOMAIN unit_last

CleanedUp ==
    /\ unit_last.op = "cleanup_old_reports"
    /\ unit_last.out.exc = NoExc

\* C22: after cleanup_old_reports(report_id, N) on a report with k stored
\* versions exactly the min(N, k) most recent version directories remain and
\* all older ones are deleted; for N >= 1 get_report(report_id) resolves to
\* the same latest version as before the cleanup
C22_CleanupKeepsLatest ==
    CleanedUp =>
        LET before == VersionsOf(unit_last.pre.versions, "rep1")
            after == VersionsOf(fs.versions, "rep1")
            N == unit_last.arg.keep_versions
        IN  /\ after \subseteq before
            /\ Cardinality(after) = Min2(N, Cardinality(before))
            /\ \A a \in after, b \in before \ after : a.timestamp > b.timestamp
            /\ N >= 1 => get_report(fs.versions, "rep1") =
                             get_report(unit_last.pre.versions, "rep1")

\* three versions were stored and a cleanup kept the latest two
C22_Witness ==
    /\ CleanedUp
    /\ Cardinality(VersionsOf(unit_last.pre.versions, "rep1")) = 3
    /\ unit_last.arg.keep_versions = 2
    /\ Cardinality(VersionsOf(fs.versions, "rep1")) = 2
    /\ get_report(fs.versions, "rep1") # {<<>>}

\* the topic names of the first response
ResponseNames ==
    [i \in 1..Len(llm_topics.data["topics"]) |-> llm_topics.data["topics"][i]["name"]]

FirstStepFailed == llm_topics.raise \/ _parse_topics(llm_topics).exc # NoExc

SecondStepFailed == llm_hierarchy.raise \/ _parse_hierarchy(llm_hierarchy).exc # NoExc

\* C25: analyze issues analyze_topics and then extract_hierarchies, each at
\* most once and in that order, passing to the second the topic names parsed
\* from the first response; if the first call or its parsing fails the
\* second call is never issued; every failure leaves analyze as a
\* TopicAnalysisError and nothing is retried
C25_TwoCallsInOrder ==
    t_pc = "analyzed" =>
        LET calls == analysis.calls
        IN  /\ Len(calls) \in 1..2
            /\ calls[1].fn = "analyze_topics"
            /\ Len(calls) = 2 =>
                   /\ calls[2].fn = "extract_hierarchies"
                   /\ calls[2].names = ResponseNames
            /\ FirstStepFailed => Len(calls) = 1
            /\ ~FirstStepFailed => Len(calls) = 2
            /\ (FirstStepFailed \/ SecondStepFailed) =>
                   analysis.exc.cls = "TopicAnalysisError"

\* both calls were issued and the second one failed
C25_Witness ==
    /\ t_pc = "analyzed"
    /\ Len(analysis.calls) = 2
    /\ llm_hierarchy.raise
    /\ analysis.exc.cls = "TopicAnalysisError"

\* the positions of the Topics in the subtopics list of the i-th Topic
SubtopicsOf(ts, i) ==
    IF ts[i].subtopics = <<>> THEN {}
    ELSE {ts[i].subtopics[1][k] : k \in 1..Len(ts[i].subtopics[1])}

\* the Topics reached from the set from by following subtopics
RECURSIVE Descendants(_, _, _)
Descendants(ts, from, seen) ==
    LET next == (UNION {SubtopicsOf(ts, i) : i \in from}) \ seen
    IN  IF next = {} THEN seen ELSE Descendants(ts, next, seen \cup next)

\* C26: after hierarchy post-processing the topics form a tree: no Topic is
\* reachable from itself by following subtopics, and in particular no topic
\* is its own subtopic or its own parent_topic
C26_TopicsFormTree ==
    t_pc = "updated" =>
        \A i \in 1..Len(topics) :
            /\ i \notin Descendants(topics, {i}, {})
            /\ topics[i].parent_topic # <<topics[i].name>>

Reached(stage) == \E i \in 1..Len(run.stages) : run.stages[i] = stage

\* C29: every input file the audio stage accepts is also accepted by the
\* storage step that follows it: once process_audio has succeeded,
\* store_audio called with the file's extension does not fail with
\* InvalidFormatError
C29_AcceptedAudioIsStorable ==
    Reached("AUDIO_PROCESSED") => run.stage_exc.cls # "InvalidFormatError"

RowsOf(rows, recording_id) ==
    SelectSeq(rows, LAMBDA row : row["recording_id"] = recording_id)

FailedAfterRecordingStored ==
    /\ run.pc = "failed"
    /\ Reached("RECORDING_STORED")

\* C24: when a stage after RECORDING_STORED fails, process performs no
\* compensating action: the stored audio file, the recording row and the
\* transcription rows written earlier in the run are all still present and
\* unchanged after process raises
C24_NoCompensation ==
    FailedAfterRecordingStored =>
        LET recs == RowsOf(db.recordings, run.file_id)
            trs == RowsOf(db.transcriptions, run.file_id)
            segs == run.transcription_segments_dict
        IN  /\ [file_id |-> run.file_id, format |-> Lower(audio.ext)] \in fs.audio_files
            /\ Len(recs) = 1
            /\ recs[1].duration = run.processing_result.metadata.duration
            /\ recs[1].format = run.processing_result.metadata.format
            /\ Reached("TRANSCRIPTION_STORED") =>
                   /\ Len(trs) = Len(segs)
                   /\ \A i \in 1..Len(segs) :
                          /\ trs[i].text = segs[i].text
                          /\ trs[i].speaker_id = segs[i].speaker_id
                          /\ trs[i].start_time = segs[i].start_time
                          /\ trs[i].end_time = segs[i].end_time

\* the transcription's rows were stored and a later stage failed
C24_Witness ==
    /\ FailedAfterRecordingStored
    /\ Reached("TRANSCRIPTION_STORED")
    /\ Len(run.transcription_segments_dict) >= 1
    /\ Len(RowsOf(db.transcriptions, run.file_id)) >= 1

\* the texts of the units of stable_segments[i..] aligned to segment k, in order
RECURSIVE AlignedTexts(_, _, _, _)
AlignedTexts(stable_segments, speaker_segments, k, i) ==
    IF i > Len(stable_segments) THEN <<>>
    ELSE (IF BestSegment(stable_segments[i], speaker_segments) = k
          THEN <<stable_segments[i].text>> ELSE <<>>)
         \o AlignedTexts(stable_segments, speaker_segments, k, i + 1)

\* C27: after _align_transcription the text of every speaker segment is the
\* in-order concatenation of the texts of the units aligned to it, so the
\* text of every unit that got a speaker is in its max-overlap segment once
C27_TextFollowsAlignment ==
    unit_last.op = "_align_transcription"
    => \A k \in 1..Len(unit_last.speaker_segments) :
           unit_last.texts[k]
             = AlignedTexts(unit_last.stable_segments, unit_last.speaker_segments, k, 1)

\* the rows the three getters return for one recording on a working engine
Returned(d, c, id) ==
    [recording |-> get_recording_metadata(d, c, id, "ok").exc = NoExc,
     transcription |-> get_transcription(d, c, id, NoTime, NoTime, "ok").val,
     topics |-> get_topics(d, c, id, "ok").val]

Rows(seq) == {seq[k] : k \in 1..Len(seq)}

\* C28: no DAO call, failing or not, and no close and reopen, removes a row
\* that a get_* call returned before it: a recording that was found is still
\* found, and its transcription rows and topic rows are still returned
C28_StoredRowsKept ==
    [][\A id \in RecIds :
          /\ Returned(db, conn, id).recording => Returned(db', conn', id).recording
          /\ Rows(Returned(db, conn, id).transcription)
               \subseteq Rows(Returned(db', conn', id).transcription)
          /\ Rows(Returned(db, conn, id).topics)
               \subseteq Rows(Returned(db', conn', id).topics)]_vars

\* a call is between its preprocessing and its finally clause
Reading(c) == pa.pc = "concurrent" /\ pa.calls[c].pc \in {"transcribe", "diarize"}

\* C30: while a process_audio call is transcribing or diarizing, the temp
\* file it preprocessed is on disk as that call wrote it: no other call has
\* deleted or overwritten it, also when both calls were given the same input
C30_TempFileIsPrivate ==
    \A c \in ProcCalls :
        Reading(c) => pa.disk[pa.calls[c].audio_path] = c

\* C23: two pipeline invocations that share one storage root never write
\* the same file path: the stored audio files and the generated reports of
\* one are all different from those of the other
C23_DisjointPaths ==
    run.pc = "shared"
    => \A i, j \in Invocations :
           i # j => run.runs[i].wrote \cap run.runs[j].wrote = {}

====
